---- MODULE Spec2Model ----
(***************************************************************************)
(* Priority task scheduler of mutil_task: Task state machine (core/task.py)*)
(* and TaskQueue (queue/task_queue.py).                                    *)
(*                                                                         *)
(* Threads: the pool workers running _run_task, the timeout scanner, one   *)
(* caller of the scheduler API (enqueue, cancel_task) and user threads     *)
(* calling Task methods directly, without the scheduler lock (one in Spec, *)
(* two in SpecUsers).  A step of the model holds at most one write of a    *)
(* task's status, so that the lock-free Task methods interleave with the   *)
(* locked sections as threads do; the scheduler's own structures are only  *)
(* touched under the lock.                                                 *)
(***************************************************************************)
EXTENDS Integers, Sequences, FiniteSets, TLC

\* ---------------------------------------------------------------- bounds
NumTasks == 2

\* ------------------------------------------------------ program constants
max_workers == 2
MaxRetries == 3
CRITICAL == 0
HIGH == 1
NORMAL == 2
LOW == 3

Tasks == 1..NumTasks
\* Task ids are strings compared by the heap; task number i stands for the
\* i-th id in string order.
TaskStatus == {"PENDING", "QUEUED", "RUNNING", "COMPLETED", "FAILED", "CANCELLED"}
TaskPriority == {CRITICAL, HIGH, NORMAL, LOW}
\* The tasks of a run as they are constructed: task 1 with either priority
\* and a queue_timeout, the others HIGH and without one.
PriorityChoices == {HIGH, LOW}
PriorityConfigs ==
  {p \in [Tasks -> PriorityChoices] : \A t \in Tasks \ {1} : p[t] = HIGH}
TimedTasks == {1}

WorkerNames == <<"w1", "w2", "w3", "w4">>
\* a pool that starts one thread more than max_workers
Workers_one_more == {WorkerNames[i] : i \in 1..(max_workers + 1)}

\* the threads of ThreadPoolExecutor(max_workers)
Workers == {WorkerNames[i] : i \in 1..max_workers}
\* threads of the application calling Task methods directly
Users == {"direct", "direct2"}

\* Task.progress in tenths: 1.0 is ProgressOne; arguments of update_progress
\* below 0, inside [0,1] and above 1
ProgressOne == 10
ProgressInputs == {-5, 0, 3, 10, 15}

\* EventBus: publishes of one run, event types, subscriber callbacks (one
\* returns normally, one raises an Exception whenever it is called)
MaxPublishes == 2
_max_workers == 4
\* the threads of EventBus._executor (thread_name_prefix "EventBus")
BusThreadNames == <<"EventBus_0", "EventBus_1", "EventBus_2", "EventBus_3">>
BusThreads == {BusThreadNames[i] : i \in 1.._max_workers}
\* callbacks that call a method of EventBus (subscribe, unsubscribe,
\* publish, get_subscriber_count or clear) when they are called
CallsBus == {"on_event_calls_bus"}
EventTypes == {"task_status_changed", "task_cancelled"}
Callbacks == {"on_event", "on_event_raises"}
Raising == {"on_event_raises"}
Threads == Workers \cup {"api", "scanner"} \cup Users

\* ------------------------------------------------------------ Task: matrix
\* a matrix in which a FAILED task can be cancelled
TRANSITION_MATRIX_failed_cancellable ==
  [s \in TaskStatus |->
     CASE s = "PENDING"   -> {"QUEUED", "CANCELLED"}
       [] s = "QUEUED"    -> {"RUNNING", "CANCELLED", "FAILED"}
       [] s = "RUNNING"   -> {"COMPLETED", "FAILED", "CANCELLED"}
       [] s = "FAILED"    -> {"QUEUED", "CANCELLED"}
       [] s = "COMPLETED" -> {}
       [] s = "CANCELLED" -> {}]

TRANSITION_MATRIX ==
  [s \in TaskStatus |->
     CASE s = "PENDING"   -> {"QUEUED", "CANCELLED"}
       [] s = "QUEUED"    -> {"RUNNING", "CANCELLED", "FAILED"}
       [] s = "RUNNING"   -> {"COMPLETED", "FAILED", "CANCELLED"}
       [] s = "FAILED"    -> {"QUEUED"}
       [] s = "COMPLETED" -> {}
       [] s = "CANCELLED" -> {}]

\* a check that also accepts the status the task already has
_validate_transition_accepts_same(current, new) ==
  new \in TRANSITION_MATRIX[current] \cup {current}

\* TRUE when the transition is legal (the method returns), FALSE when it
\* raises ValueError.
_validate_transition(current, new) == new \in TRANSITION_MATRIX[current]

\* ------------------------------------------------------------------ heapq
\* Heap entries are (priority value, task id, task); the task object is
\* identified by its id.  Tuples compare lexicographically.
EntryLT(a, b) == a[1] < b[1] \/ (a[1] = b[1] /\ a[2] < b[2])

\* heapq._siftdown(heap, startpos, pos) on 1-based sequences
RECURSIVE SiftDownFrom(_, _, _, _)
SiftDownFrom(h, startpos, pos, newitem) ==
  IF pos > startpos
  THEN LET parentpos == pos \div 2
       IN IF EntryLT(newitem, h[parentpos])
          THEN SiftDownFrom([h EXCEPT ![pos] = h[parentpos]], startpos, parentpos, newitem)
          ELSE [h EXCEPT ![pos] = newitem]
  ELSE [h EXCEPT ![pos] = newitem]

_siftdown(h, startpos, pos) == SiftDownFrom(h, startpos, pos, h[pos])

\* heapq._siftup(heap, pos): bubble the smaller child up to a leaf, then
\* sift the displaced item down from there.
RECURSIVE SiftUpFrom(_, _, _, _)
SiftUpFrom(h, startpos, pos, newitem) ==
  LET childpos == 2 * pos
      rightpos == childpos + 1
  IN IF childpos <= Len(h)
     THEN LET c == IF rightpos <= Len(h) /\ ~EntryLT(h[childpos], h[rightpos])
                   THEN rightpos ELSE childpos
          IN SiftUpFrom([h EXCEPT ![pos] = h[c]], startpos, c, newitem)
     ELSE _siftdown([h EXCEPT ![pos] = newitem], startpos, pos)

_siftup(h, pos) == SiftUpFrom(h, pos, pos, h[pos])

\* a push that appends the entry and does not sift it towards the root
heappush_appends(h, item) == Append(h, item)

heappush(h, item) == _siftdown(Append(h, item), 1, Len(h) + 1)

\* the heap left by heapq.heappop; the popped item is h[1]
heappop(h) ==
  IF Len(h) = 1 THEN <<>>
  ELSE _siftup([SubSeq(h, 1, Len(h) - 1) EXCEPT ![1] = h[Len(h)]], 1)

RECURSIVE HeapifyFrom(_, _)
HeapifyFrom(h, i) == IF i < 1 THEN h ELSE HeapifyFrom(_siftup(h, i), i - 1)

heapify(h) == HeapifyFrom(h, Len(h) \div 2)

RECURSIVE Without(_, _)
Without(h, id) ==
  IF h = <<>> THEN <<>>
  ELSE IF h[1][2] = id THEN Without(Tail(h), id)
       ELSE <<h[1]>> \o Without(Tail(h), id)

HeapIds(h) == {h[i][2] : i \in 1..Len(h)}
IdsInOrder(h) == [i \in 1..Len(h) |-> h[i][2]]

\* dict helpers
Put(f, k, v) == [x \in (DOMAIN f) \cup {k} |-> IF x = k THEN v ELSE f[x]]
Del(f, k) == [x \in (DOMAIN f) \ {k} |-> f[x]]
EmptyDict == [x \in {} |-> 0]


\* ------------------------------------------------------------------ state
VARIABLES
  status,               \* Task.status
  progress,             \* Task.progress, in tenths
  _cache,               \* QueuePositionService._cache, when within its ttl
  cache_lock,           \* holder of QueuePositionService._cache_lock
  priority,             \* Task.priority (value)
  retry_count,          \* Task.retry_count, when the task's class declares it
  queue_timeout,        \* Task.queue_timeout is set
  queue_started_at,     \* Task.queue_started_at is set
  timeout_reason,       \* Task.timeout_reason is set
  declares_retry_count, \* the tasks' class declares a retry_count field
  executor,             \* how Task.execute ends for the task: "returns",
                        \* "raises", "times_out", or "any" of these per attempt
  heap,                 \* TaskQueue._heap
  index,                \* TaskQueue._task_index
  active,               \* keys of TaskQueue._active_tasks
  completed,            \* keys of TaskQueue._completed_tasks
  runq,                 \* run-requests submitted to the pool, not yet started
  th,                   \* each thread's position
  lock,                 \* holder of TaskQueue._lock
  scan_rest,            \* entries the scanner's loop has still to visit
  emitted,              \* events published by the last step
  returned,             \* the call that returned in the last step
  enq_order,            \* history: tasks in the order enqueue accepted them
  dispatched,           \* history: tasks a worker has taken for execution
  cancelled_in_heap,    \* history: tasks set to CANCELLED while in the heap
  cancelled_running,    \* history: tasks set to CANCELLED while being executed
  _subscribers,         \* EventBus._subscribers: event type -> list of callbacks
  pub,                  \* the publishing thread's position inside EventBus.publish
  pool,                 \* _safe_callback calls submitted to EventBus._executor
  invoked,              \* history: calls of each callback, per publish
  published,            \* history: per publish, the subscriber list when the
                        \* copy was taken, and how the call ended
  late,                 \* history: publishes that delivered after the list changed
  work_queue,           \* EventBus._executor's work queue: the callbacks
                        \* submitted for the tasks' events, oldest first
  observed              \* history: the tasks' events in the order in which
                        \* the subscribers' callbacks were called with them

posvars == <<_cache, cache_lock>>

schedvars == <<status, progress, _cache, cache_lock, priority, retry_count, queue_timeout, queue_started_at,
               timeout_reason, declares_retry_count, executor, heap, index, active,
               completed,
               runq, th, lock, scan_rest, emitted, returned, enq_order,
               dispatched, cancelled_in_heap, cancelled_running>>

busvars == <<_subscribers, pub, pool, invoked, published, late>>

obsvars == <<work_queue, observed>>

vars == <<schedvars, busvars, obsvars>>

Idle == [pc |-> "idle", t |-> 0, new |-> "-", op |-> "-", cont |-> "-"]
At(pc, t) == [Idle EXCEPT !.pc = pc, !.t = t]
\* a thread about to run validate-then-set of `new` on task t for method op
Call(t, new, op, cont) == [pc |-> "validate", t |-> t, new |-> new, op |-> op, cont |-> cont]

NoReturn == [op |-> "-", t |-> 0, ret |-> FALSE, arg |-> "-"]
Ret(op, t, ret) == [op |-> op, t |-> t, ret |-> ret, arg |-> "-"]

StatusChanged(t, old, new, is_retry) ==
  [type |-> "task_status_changed", task |-> t, old |-> old, new |-> new, is_retry |-> is_retry]
Cancelled(t, old) ==
  [type |-> "task_cancelled", task |-> t, old |-> old, new |-> "-", is_retry |-> FALSE]

Entry(t) == <<priority[t], t>>

\* QueuePositionService._cache is None
NoCache == [is_none |-> TRUE, positions |-> EmptyDict]

\* The application calls get_task_position and get_task_status from a thread
\* of its own.  Where no such thread exists the cache is never filled, and
\* invalidate_cache, which then only sets None to None under a lock nobody
\* else takes, is not a step of its own.
PositionCalls == "reader" \in DOMAIN th

\* ThreadPoolExecutor._shutdown of the scheduler's executor: set once the
\* thread that leaves the with-block has called __exit__
ExecutorShutdown == "closer" \in DOMAIN th /\ th["closer"].pc # "idle"

\* where a thread goes after a locked section that is followed by
\* position_service.invalidate_cache()
ThenInvalidate(t) == IF PositionCalls THEN At("invalidate", t) ELSE Idle

PubIdle == [pc |-> "idle", id |-> 0, type |-> "-", async |-> FALSE, copy |-> <<>>, i |-> 0]

\* the class attributes of EventBus before any subscription
EventBusInit ==
  /\ _subscribers = [e \in EventTypes |-> <<>>]
  /\ pub = PubIdle
  /\ pool = {}
  /\ invoked = [id \in 1..MaxPublishes |-> [cb \in Callbacks |-> 0]]
  /\ published = <<>>
  /\ late = {}
  /\ work_queue = <<>>
  /\ observed = <<>>

Init ==
  /\ status = [t \in Tasks |-> "PENDING"]
  /\ priority \in PriorityConfigs
  /\ retry_count = [t \in Tasks |-> 0]
  /\ queue_timeout = [t \in Tasks |-> t \in TimedTasks]
  /\ queue_started_at = [t \in Tasks |-> FALSE]
  /\ timeout_reason = [t \in Tasks |-> FALSE]
  /\ declares_retry_count \in BOOLEAN
  /\ executor = [t \in Tasks |-> "any"]
  /\ heap = <<>>
  /\ index = EmptyDict
  /\ active = {}
  /\ completed = {}
  /\ runq = 0
  /\ th = [x \in Threads |-> Idle]
  /\ lock = "free"
  /\ scan_rest = <<>>
  /\ emitted = <<>>
  /\ returned = NoReturn
  /\ enq_order = <<>>
  /\ dispatched = {}
  /\ cancelled_in_heap = {}
  /\ cancelled_running = {}
  /\ EventBusInit
  /\ progress = [t \in DOMAIN status |-> 0]
  /\ _cache = NoCache
  /\ cache_lock = "free"

\* ------------------------------------------- what a returning call leaves
\* The values left when thread x ends its locked section (or, for the
\* direct thread, its method) changing nothing.
Same(x) ==
  [heap |-> heap, index |-> index, active |-> active, completed |-> completed,
   retry_count |-> retry_count, timeout_reason |-> timeout_reason,
   progress |-> progress,
   thx |-> Idle, lock |-> IF x \in Users THEN lock ELSE "free",
   scan_rest |-> IF x = "scanner" THEN <<>> ELSE scan_rest, returned |-> NoReturn]

Apply(x, R) ==
  /\ heap' = R.heap
  /\ index' = R.index
  /\ active' = R.active
  /\ completed' = R.completed
  /\ retry_count' = R.retry_count
  /\ timeout_reason' = R.timeout_reason
  /\ progress' = R.progress
  /\ th' = [th EXCEPT ![x] = R.thx]
  /\ lock' = R.lock
  /\ scan_rest' = R.scan_rest
  /\ returned' = R.returned
  /\ UNCHANGED <<runq, queue_started_at, priority, queue_timeout,
                 declares_retry_count, executor, enq_order, dispatched>>
  /\ UNCHANGED <<busvars, posvars>>

\* The loop of _scan_queue_timeouts over the entries still to visit: rest
\* holds, in the order of the list, the entries whose wait has expired.
ScanLoop(base, rest) ==
  IF rest = <<>>
  THEN base
  ELSE [base EXCEPT !.thx = Call(rest[1], "FAILED", "atomic", "_handle_queue_timeout"),
                    !.lock = "scanner",
                    !.scan_rest = Tail(rest)]

\* _dequeue_and_validate_task after atomic_set_status(RUNNING): the result
\* of the status change is not looked at, the task is returned and executed.
_acquire_task_for_execution(x, t, ok) == [Same(x) EXCEPT !.thx = At("exec", t)]

\* _handle_successful_execution after atomic_set_status(COMPLETED)
_handle_successful_execution(x, t, ok) ==
  [Same(x) EXCEPT !.completed = completed \cup {t},
                  !.progress = [progress EXCEPT ![t] = ProgressOne],
                  !.thx = At("cleanup", t)]

\* a retry test that compares with <= : one retry more
_handle_failed_execution_retries_at_cap(x, t, ok) ==
  IF ~declares_retry_count
  THEN Same(x)
  ELSE IF retry_count[t] <= MaxRetries
       THEN [Same(x) EXCEPT !.retry_count = [retry_count EXCEPT ![t] = @ + 1],
                            !.thx = Call(t, "QUEUED", "atomic", "retry"),
                            !.lock = x]
       ELSE [Same(x) EXCEPT !.thx = At("cleanup", t)]

\* _handle_failed_execution after atomic_set_status(FAILED).  Task is a
\* pydantic model: assigning retry_count to a task whose class declares no
\* such field raises ValueError out of _run_task, past the cleanup.
_handle_failed_execution(x, t, ok) ==
  IF ~declares_retry_count
  THEN Same(x)
  ELSE IF retry_count[t] < MaxRetries
       THEN [Same(x) EXCEPT !.retry_count = [retry_count EXCEPT ![t] = @ + 1],
                            !.thx = Call(t, "QUEUED", "atomic", "retry"),
                            !.lock = x]
       ELSE [Same(x) EXCEPT !.thx = At("cleanup", t)]

\* _handle_failed_execution after atomic_set_status(QUEUED): the re-push
RetryPush(x, t, ok) ==
  [Same(x) EXCEPT !.heap = heappush(heap, Entry(t)),
                  !.index = Put(index, t, Entry(t)),
                  !.thx = At("cleanup", t)]

\* a removal that rebuilds the heap and leaves the index key behind
_remove_from_heap_keeps_key(x, t, ok) ==
  LET R == [Same(x) EXCEPT !.heap = heapify(Without(heap, t))]
  IN IF x = "scanner"
     THEN ScanLoop(R, scan_rest)
     ELSE [R EXCEPT !.returned = Ret("cancel_task", t, TRUE)]

\* _remove_from_heap after task.cancel(), whose result is not looked at;
\* called by cancel_task (which then returns True) and by the scanner.
_remove_from_heap(x, t, ok) ==
  LET R == [Same(x) EXCEPT !.heap = heapify(Without(heap, t)),
                           !.index = Del(index, t)]
  IN IF x = "scanner"
     THEN ScanLoop(R, scan_rest)
     ELSE [R EXCEPT !.returned = Ret("cancel_task", t, TRUE),
                    !.thx = ThenInvalidate(t)]

\* a cancel_task that reports True for an active task whatever cancel says
CancelActive_reports_true(x, t, ok) == [Same(x) EXCEPT !.returned = Ret("cancel_task", t, TRUE)]

\* cancel_task, active branch, after task.cancel()
CancelActive(x, t, ok) ==
  [Same(x) EXCEPT !.returned = Ret("cancel_task", t, ok),
                  !.thx = IF ok THEN ThenInvalidate(t) ELSE Idle]

\* _handle_queue_timeout after atomic_set_status(FAILED)
_handle_queue_timeout(x, t, ok) ==
  IF ok /\ t \in DOMAIN index
  THEN [Same(x) EXCEPT !.timeout_reason = [timeout_reason EXCEPT ![t] = TRUE],
                       !.thx = [Call(t, "CANCELLED", "cancel", "_remove_from_heap")
                                  EXCEPT !.pc = "cancel"],
                       !.lock = x,
                       !.scan_rest = scan_rest]
  ELSE ScanLoop(Same(x), scan_rest)

\* a Task method called directly by the user thread returns
DirectReturn(x, r, ok) ==
  [Same(x) EXCEPT !.returned = [op |-> r.op, t |-> r.t, ret |-> ok, arg |-> r.new]]

Return(x, r, ok) ==
  CASE r.cont = "dispatch" -> _acquire_task_for_execution(x, r.t, ok)
    [] r.cont = "success" -> _handle_successful_execution(x, r.t, ok)
    [] r.cont = "failed" -> _handle_failed_execution(x, r.t, ok)
    [] r.cont = "retry" -> RetryPush(x, r.t, ok)
    [] r.cont = "_remove_from_heap" -> _remove_from_heap(x, r.t, ok)
    [] r.cont = "cancel_active" -> CancelActive(x, r.t, ok)
    [] r.cont = "_handle_queue_timeout" -> _handle_queue_timeout(x, r.t, ok)
    [] r.cont = "direct" -> DirectReturn(x, r, ok)


\* --------------------------------------------------------------- actions
\* EventBus.publish(event, async_mode=True) as the Task methods call it: one
\* _safe_callback per subscriber of the event's type, in list order
Submitted(event) ==
  IF event.type \in DOMAIN _subscribers
  THEN [i \in 1..Len(_subscribers[event.type]) |->
          [event |-> event, callback |-> _subscribers[event.type][i]]]
  ELSE <<>>

RECURSIVE SubmittedAll(_)
SubmittedAll(events) ==
  IF events = <<>> THEN <<>>
  ELSE Submitted(Head(events)) \o SubmittedAll(Tail(events))

\* EventBus._lock is held: by the thread inside EventBus.shutdown, for as
\* long as it waits for the pool; every other holder releases it within
\* its step
BusLocked == "closer" \in DOMAIN th /\ th["closer"].pc = "bus_wait"

\* the threads of the bus's pool that are inside a callback
BusyBusThreads == {b \in BusThreads \cap DOMAIN th : th[b].pc # "idle"}

\* the events a step publishes, in the order of its publish calls; publish
\* takes EventBus._lock to copy the subscriber list
Publish(events) ==
  /\ events # <<>> => ~BusLocked
  /\ emitted' = events
  /\ work_queue' = work_queue \o SubmittedAll(events)
  /\ UNCHANGED observed

NoTaskChange ==
  /\ status' = status
  /\ Publish(<<>>)
  /\ cancelled_in_heap' = cancelled_in_heap
  /\ cancelled_running' = cancelled_running

\* a cancel that tests for COMPLETED only and does not validate
StartCancel_skips_validation(x, t, cont) ==
  LET r == [Call(t, "CANCELLED", "cancel", cont) EXCEPT !.pc = "set"]
  IN /\ IF status[t] = "COMPLETED"
        THEN Apply(x, Return(x, r, FALSE))
        ELSE Apply(x, [Same(x) EXCEPT !.thx = r,
                                      !.lock = IF x \in Users THEN lock ELSE x,
                                      !.scan_rest = scan_rest])
     /\ NoTaskChange

\* Task.cancel up to _set_status, called by thread x with the continuation
\* cont: the COMPLETED test and _validate_transition.  The two reads of the
\* status are one step: a status other threads change between them gives
\* the result the second read alone gives.
StartCancel(x, t, cont) ==
  LET r == [Call(t, "CANCELLED", "cancel", cont) EXCEPT !.pc = "set"]
  IN /\ IF status[t] = "COMPLETED" \/ ~_validate_transition(status[t], "CANCELLED")
        THEN Apply(x, Return(x, r, FALSE))
        ELSE Apply(x, [Same(x) EXCEPT !.thx = r,
                                      !.lock = IF x \in Users THEN lock ELSE x,
                                      !.scan_rest = scan_rest])
     /\ NoTaskChange

\* Task.cancel called from _remove_from_heap by the scanner
cancel(x) ==
  /\ th[x].pc = "cancel"
  /\ StartCancel(x, th[x].t, th[x].cont)

\* Task._validate_transition inside cancel, retry_failed_task and
\* atomic_set_status: each catches the ValueError and returns False.
Validate(x) ==
  /\ th[x].pc = "validate"
  /\ IF _validate_transition(status[th[x].t], th[x].new)
     THEN /\ th' = [th EXCEPT ![x].pc = "set"]
          /\ returned' = NoReturn
          /\ UNCHANGED <<heap, index, active, completed, retry_count, timeout_reason,
                         lock, scan_rest, runq, queue_started_at, priority,
                         queue_timeout, declares_retry_count, executor, enq_order, dispatched>>
          /\ UNCHANGED <<busvars, progress, posvars>>
     ELSE Apply(x, Return(x, th[x], FALSE))
  /\ NoTaskChange

\* Task._set_status, and the event cancel and retry_failed_task publish
\* after it; the method then returns True.
_set_status(x) ==
  /\ th[x].pc = "set"
  /\ LET r == th[x]
         old_status == status[r.t]
         changed == IF old_status # r.new
                    THEN <<StatusChanged(r.t, old_status, r.new, FALSE)>> ELSE <<>>
         after == CASE r.op = "cancel" -> <<Cancelled(r.t, r.new)>>
                    [] r.op = "retry" -> <<StatusChanged(r.t, "FAILED", r.new, TRUE)>>
                    [] OTHER -> <<>>
     IN /\ status' = [status EXCEPT ![r.t] = r.new]
        /\ Publish(changed \o after)
        /\ cancelled_in_heap' =
             IF r.new = "CANCELLED" /\ old_status # "CANCELLED" /\ r.t \in HeapIds(heap)
             THEN cancelled_in_heap \cup {r.t} ELSE cancelled_in_heap
        /\ cancelled_running' =
             IF /\ r.new = "CANCELLED"
                /\ old_status = "RUNNING"
                /\ \E w \in Workers : th[w].pc = "exec" /\ th[w].t = r.t
             THEN cancelled_running \cup {r.t} ELSE cancelled_running
        /\ Apply(x, Return(x, r, TRUE))

\* an enqueue that also takes FAILED tasks
enqueue_accepts_failed(t) ==
  /\ th["api"].pc = "idle"
  /\ lock = "free"
  /\ IF status[t] \notin {"PENDING", "FAILED"}
     THEN Apply("api", [Same("api") EXCEPT !.returned = Ret("enqueue", t, FALSE)])
     ELSE Apply("api", [Same("api") EXCEPT !.thx = At("enqueue", t), !.lock = "api"])
  /\ NoTaskChange

\* TaskQueue.enqueue: the status test under the lock
enqueue(t) ==
  /\ th["api"].pc = "idle"
  /\ lock = "free"
  /\ IF status[t] # "PENDING"
     THEN Apply("api", [Same("api") EXCEPT !.returned = Ret("enqueue", t, FALSE)])
     ELSE Apply("api", [Same("api") EXCEPT !.thx = At("enqueue", t), !.lock = "api"])
  /\ NoTaskChange

\* TaskQueue.enqueue: the direct assignment of QUEUED (no event is
\* published), the push, the index entry and the run-request; submit raises
\* RuntimeError once the executor is shut down, which ends the call after
\* the push and before invalidate_cache
enqueue_set ==
  /\ th["api"].pc = "enqueue"
  /\ LET t == th["api"].t
     IN /\ status' = [status EXCEPT ![t] = "QUEUED"]
        /\ queue_started_at' = [queue_started_at EXCEPT ![t] = TRUE]
        /\ heap' = heappush(heap, Entry(t))
        /\ index' = Put(index, t, Entry(t))
        /\ runq' = IF ExecutorShutdown THEN runq ELSE runq + 1
        /\ enq_order' = Append(enq_order, t)
        /\ returned' = Ret("enqueue", t, ~ExecutorShutdown)
  /\ th' = [th EXCEPT !["api"] = IF ExecutorShutdown THEN Idle
                                 ELSE ThenInvalidate(th["api"].t)]
  /\ lock' = "free"
  /\ Publish(<<>>)
  /\ UNCHANGED <<active, completed, retry_count, timeout_reason, scan_rest,
                 priority, queue_timeout, declares_retry_count, executor, dispatched,
                 cancelled_in_heap, cancelled_running>>
  /\ UNCHANGED <<busvars, progress, posvars>>

\* a cancel_task that reports an active task cancelled without calling
\* Task.cancel
cancel_task_marks_active(t) ==
  /\ th["api"].pc = "idle"
  /\ lock = "free"
  /\ IF t \in DOMAIN index
     THEN StartCancel("api", t, "_remove_from_heap")
     ELSE /\ Apply("api", [Same("api") EXCEPT
                             !.returned = Ret("cancel_task", t, t \in active)])
          /\ NoTaskChange

\* TaskQueue.cancel_task
cancel_task(t) ==
  /\ th["api"].pc = "idle"
  /\ lock = "free"
  /\ IF t \in DOMAIN index
     THEN StartCancel("api", t, "_remove_from_heap")
     ELSE IF t \in active
          THEN StartCancel("api", t, "cancel_active")
          ELSE /\ Apply("api", [Same("api") EXCEPT !.returned = Ret("cancel_task", t, FALSE)])
               /\ NoTaskChange

\* a dequeue that takes the last entry of the list (list.pop) and does not
\* look for an entry of higher priority
_dequeue_and_validate_task_pops_last(h) ==
  IF h = <<>>
  THEN [task |-> 0, heap |-> h, index |-> index]
  ELSE LET t == h[Len(h)][2]
       IN [task |-> IF status[t] = "CANCELLED" THEN 0 ELSE t,
           heap |-> SubSeq(h, 1, Len(h) - 1),
           index |-> Del(index, t)]

\* TaskQueue._dequeue_and_validate_task on the heap h: the task to execute
\* (0: none) and the heap and the index it leaves.
_dequeue_and_validate_task(h) ==
  IF h = <<>>
  THEN [task |-> 0, heap |-> h, index |-> index]
  ELSE LET t == h[1][2]
           rest == heappop(h)
       IN IF status[t] = "CANCELLED"
          THEN [task |-> 0, heap |-> rest, index |-> Del(index, t)]
          ELSE IF rest # <<>> /\ rest[1][1] < priority[t]
               THEN [task |-> 0, heap |-> heappush(rest, Entry(t)),
                     index |-> Put(Del(index, t), t, Entry(t))]
               ELSE [task |-> t, heap |-> rest, index |-> Del(index, t)]

\* A pool worker takes a run-request: _run_task and
\* _acquire_task_for_execution up to the call of atomic_set_status(RUNNING)
_run_task(w) ==
  /\ th[w].pc = "idle"
  /\ runq > 0
  /\ lock = "free"
  /\ runq' = runq - 1
  /\ LET d == _dequeue_and_validate_task(heap)
     IN /\ heap' = d.heap
        /\ index' = d.index
        /\ IF d.task = 0
           THEN UNCHANGED <<active, th, lock, dispatched>>
           ELSE /\ active' = active \cup {d.task}
                /\ th' = [th EXCEPT ![w] = Call(d.task, "RUNNING", "atomic", "dispatch")]
                /\ lock' = w
                /\ dispatched' = dispatched \cup {d.task}
  /\ returned' = NoReturn
  /\ NoTaskChange
  /\ UNCHANGED <<completed, retry_count, timeout_reason, scan_rest, queue_started_at,
                 priority, queue_timeout, declares_retry_count, executor, enq_order>>
  /\ UNCHANGED <<busvars, progress, posvars>>

\* The execution has ended (success: it returned; otherwise it raised or
\* exceeded execution_timeout, which _execute_task_safely turns into the same
\* failure result): _process_execution_result up to the call of
\* atomic_set_status
_process_execution_result(w, success) ==
  /\ th[w].pc = "exec"
  /\ lock = "free"
  /\ executor[th[w].t] = "any" \/ (success <=> executor[th[w].t] = "returns")
  /\ LET t == th[w].t
     IN IF status[t] = "CANCELLED"
        THEN Apply(w, [Same(w) EXCEPT !.thx = At("cleanup", t)])
        ELSE Apply(w, [Same(w) EXCEPT
                         !.thx = IF success THEN Call(t, "COMPLETED", "atomic", "success")
                                 ELSE Call(t, "FAILED", "atomic", "failed"),
                         !.lock = w])
  /\ NoTaskChange

\* QueuePositionService.invalidate_cache, called by enqueue and cancel_task
\* after their locked section and by _cleanup_execution_resources before its
\* own
invalidate_cache(x) ==
  /\ PositionCalls
  /\ th[x].pc \in {"invalidate", "cleanup"}
  /\ cache_lock = "free"
  /\ _cache' = NoCache
  /\ th' = [th EXCEPT ![x] = IF th[x].pc = "cleanup"
                             THEN [th[x] EXCEPT !.pc = "cleanup_pop"]
                             ELSE Idle]
  /\ returned' = NoReturn
  /\ NoTaskChange
  /\ UNCHANGED <<progress, cache_lock, priority, retry_count, queue_timeout,
                 queue_started_at, timeout_reason, declares_retry_count, executor,
                 heap, index, active, completed, runq, lock, scan_rest, enq_order,
                 dispatched>>
  /\ UNCHANGED busvars

\* TaskQueue._cleanup_execution_resources: the locked pop of the active entry
_cleanup_execution_resources(w) ==
  /\ th[w].pc = IF PositionCalls THEN "cleanup_pop" ELSE "cleanup"
  /\ lock = "free"
  /\ Apply(w, [Same(w) EXCEPT !.active = active \ {th[w].t}])
  /\ NoTaskChange

\* TaskQueue.get_task_status(id), called while no other thread holds the
\* lock: the status of the task found in the active set, the completed map
\* or the heap, "None" when it is in none of them.
get_task_status(id) ==
  IF id \in active THEN status[id]
  ELSE IF id \in completed THEN status[id]
  ELSE IF id \in HeapIds(heap) THEN status[id]
  ELSE "None"

\* One round of the scanner thread: _scan_queue_timeouts over the heap list
\* as it is when the loop starts.  expired: the tasks whose elapsed time the
\* clock puts beyond their queue_timeout.
_scan_queue_timeouts(expired) ==
  /\ th["scanner"].pc = "idle"
  /\ lock = "free"
  /\ expired # {}
  /\ \A t \in expired : queue_timeout[t] /\ queue_started_at[t]
  /\ Apply("scanner", ScanLoop(Same("scanner"),
                               SelectSeq(IdsInOrder(heap), LAMBDA t : t \in expired)))
  /\ NoTaskChange

\* Task.cancel called by a user thread, without the scheduler lock
Task_cancel(u, t) ==
  /\ th[u].pc = "idle"
  /\ StartCancel(u, t, "direct")

\* a retry_failed_task without the FAILED test
Task_retry_failed_task_any_status(u, t) ==
  /\ th[u].pc = "idle"
  /\ LET r == [Call(t, "QUEUED", "retry", "direct") EXCEPT !.pc = "set"]
     IN IF ~_validate_transition(status[t], "QUEUED")
        THEN Apply(u, Return(u, r, FALSE))
        ELSE Apply(u, [Same(u) EXCEPT !.thx = r])
  /\ NoTaskChange

\* Task.retry_failed_task called by a user thread: the FAILED test and
\* _validate_transition, one step as in cancel
Task_retry_failed_task(u, t) ==
  /\ th[u].pc = "idle"
  /\ LET r == [Call(t, "QUEUED", "retry", "direct") EXCEPT !.pc = "set"]
     IN IF status[t] # "FAILED" \/ ~_validate_transition(status[t], "QUEUED")
        THEN Apply(u, Return(u, r, FALSE))
        ELSE Apply(u, [Same(u) EXCEPT !.thx = r])
  /\ NoTaskChange

ProgressUpdated(t, old_progress, new_progress) ==
  [type |-> "task_progress", task |-> t,
   old_progress |-> old_progress, new_progress |-> new_progress]

Max(a, b) == IF a > b THEN a ELSE b
Min(a, b) == IF a < b THEN a ELSE b

\* an update_progress that only cuts at 1.0
update_progress_no_floor(u, t, p) ==
  /\ th[u].pc = "idle"
  /\ progress' = [progress EXCEPT ![t] = Min(ProgressOne, p)]
  /\ Publish(<<ProgressUpdated(t, progress[t], progress'[t])>>)
  /\ returned' = [op |-> "update_progress", t |-> t, ret |-> TRUE, arg |-> p]
  /\ UNCHANGED <<status, priority, retry_count, queue_timeout, queue_started_at,
                 timeout_reason, declares_retry_count, executor, heap, index, active,
                 completed, runq, th, lock, scan_rest, enq_order,
                 dispatched, cancelled_in_heap, cancelled_running>>
  /\ UNCHANGED <<busvars, posvars>>

\* Task.update_progress(p) called by thread u, not overlapping another
\* write of the task's progress
update_progress(u, t, p) ==
  /\ th[u].pc = "idle"
  /\ progress' = [progress EXCEPT ![t] = Max(0, Min(ProgressOne, p))]
  /\ Publish(<<ProgressUpdated(t, progress[t], progress'[t])>>)
  /\ returned' = [op |-> "update_progress", t |-> t, ret |-> TRUE, arg |-> p]
  /\ UNCHANGED <<status, priority, retry_count, queue_timeout, queue_started_at,
                 timeout_reason, declares_retry_count, executor, heap, index, active,
                 completed, runq, th, lock, scan_rest, enq_order,
                 dispatched, cancelled_in_heap, cancelled_running>>
  /\ UNCHANGED <<busvars, posvars>>

\* Task.atomic_set_status(new, validate) called by a user thread
Task_atomic_set_status(u, t, new, validate) ==
  /\ th[u].pc = "idle"
  /\ LET r == Call(t, new, "atomic_set_status", "direct")
     IN Apply(u, [Same(u) EXCEPT
                           !.thx = IF validate THEN r
                                   ELSE [r EXCEPT !.pc = "set", !.op = "atomic_set_status_novalidate"]])
  /\ NoTaskChange

\* ------------------------------------------------ QueuePositionService
\* _recalculate_positions: the dict id -> (position, total) of the heap list
PositionsOf(h) ==
  [id \in HeapIds(h) |->
     <<CHOOSE i \in 1..Len(h) : h[i][2] = id, Len(h)>>]

\* positions.get(task_id, (None, 0)); None is written 0
CacheGet(positions, id) ==
  IF id \in DOMAIN positions THEN positions[id] ELSE <<0, 0>>

PosUnchanged ==
  /\ NoTaskChange
  /\ UNCHANGED <<progress, priority, retry_count, queue_timeout,
                 queue_started_at, timeout_reason, declares_retry_count, executor,
                 heap, index, active, completed, runq, scan_rest, enq_order,
                 dispatched>>
  /\ UNCHANGED busvars

\* QueuePositionService.get_position: the cache lock is taken
get_position(r, id) ==
  /\ PositionCalls
  /\ th[r].pc = "idle"
  /\ cache_lock = "free"
  /\ cache_lock' = r
  /\ th' = [th EXCEPT ![r] = At("cache_check", id)]
  /\ returned' = NoReturn
  /\ UNCHANGED <<_cache, lock>>
  /\ PosUnchanged

\* a get_position that calls _recalculate_positions inside the cache lock
get_position_read_keeps_lock(r, fresh) ==
  /\ PositionCalls
  /\ th[r].pc = "cache_check"
  /\ LET id == th[r].t
     IN IF ~_cache.is_none /\ fresh
        THEN /\ returned' = [op |-> "get_position", t |-> id,
                             ret |-> CacheGet(_cache.positions, id), arg |-> "cached"]
             /\ th' = [th EXCEPT ![r] = Idle]
             /\ cache_lock' = "free"
        ELSE /\ returned' = NoReturn
             /\ th' = [th EXCEPT ![r] = At("recalc", id)]
             /\ cache_lock' = cache_lock
  /\ UNCHANGED <<_cache, lock>>
  /\ PosUnchanged

\* QueuePositionService.get_position under the cache lock: the answer of a
\* cache that is set and (fresh) younger than cache_ttl; the lock is
\* released before _recalculate_positions is called
get_position_read(r, fresh) ==
  /\ PositionCalls
  /\ th[r].pc = "cache_check"
  /\ LET id == th[r].t
     IN IF ~_cache.is_none /\ fresh
        THEN /\ returned' = [op |-> "get_position", t |-> id,
                             ret |-> CacheGet(_cache.positions, id), arg |-> "cached"]
             /\ th' = [th EXCEPT ![r] = Idle]
        ELSE /\ returned' = NoReturn
             /\ th' = [th EXCEPT ![r] = At("recalc", id)]
  /\ cache_lock' = "free"
  /\ UNCHANGED <<_cache, lock>>
  /\ PosUnchanged

\* QueuePositionService._recalculate_positions: the scheduler lock is taken
_recalculate_positions(r) ==
  /\ PositionCalls
  /\ th[r].pc = "recalc"
  /\ lock = "free"
  /\ lock' = r
  /\ th' = [th EXCEPT ![r].pc = "store"]
  /\ returned' = NoReturn
  /\ UNCHANGED <<_cache, cache_lock>>
  /\ PosUnchanged

\* QueuePositionService._recalculate_positions: the positions are computed,
\* stored in the cache under the cache lock, and the answer is returned
_recalculate_positions_store(r) ==
  /\ PositionCalls
  /\ th[r].pc = "store"
  /\ cache_lock = "free"
  /\ _cache' = [is_none |-> FALSE, positions |-> PositionsOf(heap)]
  /\ returned' = [op |-> "get_position", t |-> th[r].t,
                  ret |-> CacheGet(PositionsOf(heap), th[r].t), arg |-> "recalc"]
  /\ th' = [th EXCEPT ![r] = Idle]
  /\ lock' = "free"
  /\ UNCHANGED cache_lock
  /\ PosUnchanged

\* TaskQueue.get_task_status called by the application
get_task_status_call(r, id) ==
  /\ PositionCalls
  /\ th[r].pc = "idle"
  /\ lock = "free"
  /\ returned' = [op |-> "get_task_status", t |-> id,
                  ret |-> get_task_status(id), arg |-> "-"]
  /\ UNCHANGED <<th, _cache, cache_lock, lock>>
  /\ PosUnchanged

\* ------------------------------------------------- TaskQueue.__exit__
CloseUnchanged ==
  /\ NoTaskChange
  /\ UNCHANGED <<progress, priority, retry_count, queue_timeout,
                 queue_started_at, timeout_reason, declares_retry_count, executor,
                 heap, index, active, completed, runq, lock, scan_rest, enq_order,
                 dispatched>>
  /\ UNCHANGED <<busvars, posvars>>

\* TaskQueue.__exit__ is entered: self._executor.shutdown(wait=True) sets
\* the executor's shutdown flag
__exit__ ==
  /\ th["closer"].pc = "idle"
  /\ th' = [th EXCEPT !["closer"] = At("executor_shutdown", 0)]
  /\ returned' = NoReturn
  /\ CloseUnchanged

\* an executor.shutdown(wait=False): the pool threads are not joined
executor_shutdown_nowait ==
  /\ th["closer"].pc = "executor_shutdown"
  /\ th' = [th EXCEPT !["closer"] = At("bus_shutdown", 0)]
  /\ returned' = NoReturn
  /\ CloseUnchanged

\* self._executor.shutdown(wait=True) returns: the pool threads are joined,
\* which end once no run-request is pending or running
executor_shutdown ==
  /\ th["closer"].pc = "executor_shutdown"
  /\ runq = 0
  /\ \A w \in Workers : th[w].pc = "idle"
  /\ th' = [th EXCEPT !["closer"] = At("bus_shutdown", 0)]
  /\ returned' = NoReturn
  /\ CloseUnchanged

\* EventBus.shutdown(wait=True) is entered: EventBus._lock is taken and,
\* inside it, the pool's shutdown(wait=True) is called
EventBus_shutdown ==
  /\ th["closer"].pc = "bus_shutdown"
  /\ th' = [th EXCEPT !["closer"] = At("bus_wait", 0)]
  /\ returned' = NoReturn
  /\ CloseUnchanged

\* EventBus.shutdown(wait=True) returns, and __exit__ with it: the threads
\* of the bus's pool are joined, which end once no callback is pending or
\* running; the lock is released
EventBus_shutdown_returns ==
  /\ th["closer"].pc = "bus_wait"
  /\ pool = {}
  /\ work_queue = <<>>
  /\ BusyBusThreads = {}
  /\ th' = [th EXCEPT !["closer"] = At("closed", 0)]
  /\ returned' = Ret("__exit__", 0, TRUE)
  /\ CloseUnchanged

\* ------------------------------------------------------------- EventBus
Range(seq) == {seq[i] : i \in 1..Len(seq)}

\* list.remove: the list without its first occurrence of x
Remove(seq, x) ==
  LET k == CHOOSE i \in 1..Len(seq) : seq[i] = x /\ \A j \in 1..(i - 1) : seq[j] # x
  IN SubSeq(seq, 1, k - 1) \o SubSeq(seq, k + 1, Len(seq))

\* EventBus.subscribe: append unless the callback is already in the list
subscribe(event_type, callback) ==
  /\ _subscribers' =
       IF callback \in Range(_subscribers[event_type])
       THEN _subscribers
       ELSE [_subscribers EXCEPT ![event_type] = Append(@, callback)]
  /\ UNCHANGED <<pub, pool, invoked, published, late>>
  /\ UNCHANGED <<schedvars, obsvars>>

\* EventBus.unsubscribe
unsubscribe(event_type, callback) ==
  /\ _subscribers' =
       IF callback \in Range(_subscribers[event_type])
       THEN [_subscribers EXCEPT ![event_type] = Remove(@, callback)]
       ELSE _subscribers
  /\ UNCHANGED <<pub, pool, invoked, published, late>>
  /\ UNCHANGED <<schedvars, obsvars>>

\* EventBus.clear(event_type); "None" clears every type
clear(event_type) ==
  /\ _subscribers' =
       IF event_type = "None"
       THEN [e \in EventTypes |-> <<>>]
       ELSE [_subscribers EXCEPT ![event_type] = <<>>]
  /\ UNCHANGED <<pub, pool, invoked, published, late>>
  /\ UNCHANGED <<schedvars, obsvars>>

\* a publish that keeps a reference to the live list instead of a copy
subscribers_alias(copy, event_type) == _subscribers[event_type]

\* EventBus.publish: the local list `subscribers`, a shallow copy taken
\* under the lock
subscribers_copy(copy, event_type) == copy

\* a _safe_callback without the try/except: what the callback raises goes
\* on to the caller
_safe_callback_propagates(callback) ==
  IF callback \in Raising THEN "raises" ELSE "returns"

\* EventBus._safe_callback: how the call ends for its caller; an Exception
\* of the callback is caught and logged
_safe_callback(callback) == "returns"

\* EventBus.publish, the locked section: the copy of the subscriber list
publish(event_type, async_mode) ==
  /\ pub.pc = "idle"
  /\ Len(published) < MaxPublishes
  /\ pub' = [pc |-> "deliver", id |-> Len(published) + 1, type |-> event_type,
             async |-> async_mode, copy |-> _subscribers[event_type], i |-> 1]
  /\ published' = Append(published,
                         [type |-> event_type, async |-> async_mode,
                          subs |-> _subscribers[event_type],
                          state |-> "running", ret |-> 0])
  /\ UNCHANGED <<_subscribers, pool, invoked, late>>
  /\ UNCHANGED <<schedvars, obsvars>>

\* EventBus.publish after the locked section, one round of its loop: the
\* test for an empty list and the return of len(subscribers), or the next
\* callback submitted to the pool (async) or called (sync)
publish_deliver ==
  /\ pub.pc = "deliver"
  /\ LET subscribers == subscribers_copy(pub.copy, pub.type)
         id == pub.id
     IN IF pub.i > Len(subscribers)
        THEN /\ published' = [published EXCEPT ![id].state = "returned",
                                               ![id].ret = Len(subscribers)]
             /\ pub' = PubIdle
             /\ UNCHANGED <<pool, invoked, late>>
        ELSE LET callback == subscribers[pub.i]
             IN /\ late' = IF _subscribers[pub.type] # published[id].subs
                           THEN late \cup {id} ELSE late
                /\ IF pub.async
                   THEN /\ pool' = pool \cup {[id |-> id, callback |-> callback]}
                        /\ pub' = [pub EXCEPT !.i = @ + 1]
                        /\ UNCHANGED <<invoked, published>>
                   ELSE /\ invoked' = [invoked EXCEPT ![id][callback] = @ + 1]
                        /\ IF _safe_callback(callback) = "raises"
                           THEN /\ published' = [published EXCEPT ![id].state = "raised"]
                                /\ pub' = PubIdle
                           ELSE /\ pub' = [pub EXCEPT !.i = @ + 1]
                                /\ UNCHANGED published
                        /\ UNCHANGED pool
  /\ UNCHANGED _subscribers
  /\ UNCHANGED <<schedvars, obsvars>>

\* A thread of EventBus._executor calls the callback of a submitted
\* _safe_callback.  The pool has _max_workers threads that take the work
\* items oldest first and run them side by side, so the callback called next
\* is that of any of the first _max_workers items.
EventBus_callback(k) ==
  /\ k \in 1..Min(Len(work_queue), _max_workers - Cardinality(BusyBusThreads))
  /\ observed' = Append(observed, work_queue[k])
  /\ work_queue' = [i \in 1..(Len(work_queue) - 1) |->
                      IF i < k THEN work_queue[i] ELSE work_queue[i + 1]]
  /\ th' = IF work_queue[k].callback \in CallsBus
           THEN LET i == CHOOSE i \in 1.._max_workers :
                           /\ BusThreadNames[i] \notin BusyBusThreads
                           /\ \A j \in 1..(i - 1) : BusThreadNames[j] \in BusyBusThreads
                IN [th EXCEPT ![BusThreadNames[i]] = At("bus_call", work_queue[k].event.task)]
           ELSE th
  /\ UNCHANGED <<status, progress, priority, retry_count, queue_timeout,
                 queue_started_at, timeout_reason, declares_retry_count, executor,
                 heap, index, active, completed, runq, lock, scan_rest, emitted,
                 returned, enq_order, dispatched, cancelled_in_heap,
                 cancelled_running>>
  /\ UNCHANGED <<busvars, posvars>>

\* the method of EventBus a callback has called takes EventBus._lock, runs
\* and returns, and the callback with it
EventBus_callback_returns(b) ==
  /\ b \in BusyBusThreads
  /\ th[b].pc = "bus_call"
  /\ ~BusLocked
  /\ th' = [th EXCEPT ![b] = Idle]
  /\ UNCHANGED <<status, progress, priority, retry_count, queue_timeout,
                 queue_started_at, timeout_reason, declares_retry_count, executor,
                 heap, index, active, completed, runq, lock, scan_rest, emitted,
                 returned, enq_order, dispatched, cancelled_in_heap,
                 cancelled_running>>
  /\ UNCHANGED <<busvars, posvars, obsvars>>

\* A thread of EventBus._executor runs a submitted _safe_callback; what the
\* callback raises ends in the worker, whatever _safe_callback does with it.
EventBus_worker(e) ==
  /\ e \in pool
  /\ pool' = pool \ {e}
  /\ invoked' = [invoked EXCEPT ![e.id][e.callback] = @ + 1]
  /\ late' = IF _subscribers[published[e.id].type] # published[e.id].subs
             THEN late \cup {e.id} ELSE late
  /\ UNCHANGED <<_subscribers, pub, published>>
  /\ UNCHANGED <<schedvars, obsvars>>

Next ==
  \/ \E t \in Tasks : enqueue(t)
  \/ enqueue_set
  \/ \E t \in Tasks : cancel_task(t)
  \/ \E w \in Workers : _run_task(w)
  \/ \E w \in Workers, success \in BOOLEAN : _process_execution_result(w, success)
  \/ \E w \in Workers : _cleanup_execution_resources(w)
  \/ \E expired \in SUBSET HeapIds(heap) : _scan_queue_timeouts(expired)
  \/ \E t \in Tasks : Task_cancel("direct", t)
  \/ \E t \in Tasks : Task_retry_failed_task("direct", t)
  \/ \E x \in Threads : cancel(x)
  \/ \E x \in Threads : Validate(x)
  \/ \E x \in Threads : _set_status(x)

Spec == Init /\ [][Next]_vars

\* ---------------------------------------------- the Task methods on their own
\* One thread calling the methods of tasks constructed in any status.
InitTask ==
  /\ status \in [Tasks -> TaskStatus]
  /\ priority = [t \in Tasks |-> NORMAL]
  /\ retry_count = [t \in Tasks |-> 0]
  /\ queue_timeout = [t \in Tasks |-> FALSE]
  /\ queue_started_at = [t \in Tasks |-> FALSE]
  /\ timeout_reason = [t \in Tasks |-> FALSE]
  /\ declares_retry_count = FALSE
  /\ executor = [t \in Tasks |-> "any"]
  /\ heap = <<>>
  /\ index = EmptyDict
  /\ active = {}
  /\ completed = {}
  /\ runq = 0
  /\ th = [x \in Threads |-> Idle]
  /\ lock = "free"
  /\ scan_rest = <<>>
  /\ emitted = <<>>
  /\ returned = NoReturn
  /\ enq_order = <<>>
  /\ dispatched = {}
  /\ cancelled_in_heap = {}
  /\ cancelled_running = {}
  /\ EventBusInit
  /\ progress = [t \in DOMAIN status |-> 0]
  /\ _cache = NoCache
  /\ cache_lock = "free"

NextTask ==
  \/ \E t \in Tasks, new \in TaskStatus, validate \in BOOLEAN :
       Task_atomic_set_status("direct", t, new, validate)
  \/ \E t \in Tasks : Task_cancel("direct", t)
  \/ \E t \in Tasks : Task_retry_failed_task("direct", t)
  \/ Validate("direct")
  \/ _set_status("direct")

SpecTask == InitTask /\ [][NextTask]_vars

\* ------------------- several application threads using one task directly
\* Tasks of a class that declares retry_count, all of one priority, without
\* queue timeouts; two application threads call Task.cancel and
\* Task.retry_failed_task while the scheduler runs the tasks.
InitUsers ==
  /\ Init
  /\ declares_retry_count
  /\ priority = [t \in Tasks |-> HIGH]

NextUsers ==
  \/ \E t \in Tasks : enqueue(t)
  \/ enqueue_set
  \/ \E w \in Workers : _run_task(w)
  \/ \E w \in Workers, success \in BOOLEAN : _process_execution_result(w, success)
  \/ \E w \in Workers : _cleanup_execution_resources(w)
  \/ \E u \in Users, t \in Tasks : Task_cancel(u, t)
  \/ \E u \in Users, t \in Tasks : Task_retry_failed_task(u, t)
  \/ \E x \in Threads : Validate(x)
  \/ \E x \in Threads : _set_status(x)

SpecUsers == InitUsers /\ [][NextUsers]_vars

\* ------------------------------------------------ a task that always fails
\* Task 1 fails on every attempt (execute raises, or exceeds
\* execution_timeout); the other tasks succeed.  All have the same priority,
\* so task 1, whose id is the smallest, is at the top of the heap whenever it
\* is queued.  The application enqueues the tasks in the order of their ids,
\* and one application thread calls retry_failed_task on task 1.
RetryTasks == 1..(MaxRetries + 1)

InitRetry ==
  /\ status = [t \in RetryTasks |-> "PENDING"]
  /\ priority = [t \in RetryTasks |-> HIGH]
  /\ retry_count = [t \in RetryTasks |-> 0]
  /\ queue_timeout = [t \in RetryTasks |-> FALSE]
  /\ queue_started_at = [t \in RetryTasks |-> FALSE]
  /\ timeout_reason = [t \in RetryTasks |-> FALSE]
  /\ declares_retry_count \in BOOLEAN
  /\ \E e \in {"raises", "times_out"} :
       executor = [t \in RetryTasks |-> IF t = 1 THEN e ELSE "returns"]
  /\ heap = <<>>
  /\ index = EmptyDict
  /\ active = {}
  /\ completed = {}
  /\ runq = 0
  /\ th = [x \in Threads |-> Idle]
  /\ lock = "free"
  /\ scan_rest = <<>>
  /\ emitted = <<>>
  /\ returned = NoReturn
  /\ enq_order = <<>>
  /\ dispatched = {}
  /\ cancelled_in_heap = {}
  /\ cancelled_running = {}
  /\ EventBusInit
  /\ progress = [t \in DOMAIN status |-> 0]
  /\ _cache = NoCache
  /\ cache_lock = "free"

NextRetry ==
  \/ \E t \in RetryTasks : Len(enq_order) = t - 1 /\ enqueue(t)
  \/ enqueue_set
  \/ \E w \in Workers : _run_task(w)
  \/ \E w \in Workers, success \in BOOLEAN : _process_execution_result(w, success)
  \/ \E w \in Workers : _cleanup_execution_resources(w)
  \/ Task_retry_failed_task("direct", 1)
  \/ \E x \in Threads : Validate(x)
  \/ \E x \in Threads : _set_status(x)

SpecRetry == InitRetry /\ [][NextRetry]_vars

\* ------------------------------------------------------ EventBus on its own
\* One thread publishes, any thread subscribes, unsubscribes and clears, the
\* pool runs the submitted callbacks.
InitBus ==
  /\ Init
  /\ ~declares_retry_count
  /\ priority = [t \in Tasks |-> HIGH]

NextBus ==
  \/ \E e \in EventTypes, cb \in Callbacks : subscribe(e, cb)
  \/ \E e \in EventTypes, cb \in Callbacks : unsubscribe(e, cb)
  \/ \E e \in EventTypes \cup {"None"} : clear(e)
  \/ \E e \in EventTypes, async_mode \in BOOLEAN : publish(e, async_mode)
  \/ publish_deliver
  \/ \E e \in pool : EventBus_worker(e)

SpecBus == InitBus /\ [][NextBus]_vars

\* ------------------------- Task.cancel called directly while workers run
\* The scheduler runs the tasks while one application thread calls
\* Task.cancel on them, without the scheduler lock.
NextCancel ==
  \/ \E t \in Tasks : enqueue(t)
  \/ enqueue_set
  \/ \E w \in Workers : _run_task(w)
  \/ \E w \in Workers, success \in BOOLEAN : _process_execution_result(w, success)
  \/ \E w \in Workers : _cleanup_execution_resources(w)
  \/ \E t \in Tasks : Task_cancel("direct", t)
  \/ \E x \in Threads : Validate(x)
  \/ \E x \in Threads : _set_status(x)

SpecCancel == Init /\ [][NextCancel]_vars

\* -------------------------------------------------- progress of a task
\* Tasks of the plain class and of one priority are enqueued, run and
\* completed or failed by the workers while an application thread reports
\* progress on them.
InitProgress ==
  /\ Init
  /\ ~declares_retry_count
  /\ priority = [t \in Tasks |-> HIGH]

NextProgress ==
  \/ \E t \in Tasks : enqueue(t)
  \/ enqueue_set
  \/ \E w \in Workers : _run_task(w)
  \/ \E w \in Workers, success \in BOOLEAN : _process_execution_result(w, success)
  \/ \E w \in Workers : _cleanup_execution_resources(w)
  \/ \E t \in Tasks, p \in ProgressInputs : update_progress("direct", t, p)
  \/ \E x \in Threads : Validate(x)
  \/ \E x \in Threads : _set_status(x)

SpecProgress == InitProgress /\ [][NextProgress]_vars

\* ------------------------------------ the scheduler with position queries
\* Tasks of one priority; the application enqueues and cancels from one
\* thread and asks for positions and statuses from another, while the
\* workers, the automatic retries and the timeout scanner run.
InitPosition ==
  /\ status = [t \in Tasks |-> "PENDING"]
  /\ priority = [t \in Tasks |-> HIGH]
  /\ retry_count = [t \in Tasks |-> 0]
  /\ queue_timeout = [t \in Tasks |-> t \in TimedTasks]
  /\ queue_started_at = [t \in Tasks |-> FALSE]
  /\ timeout_reason = [t \in Tasks |-> FALSE]
  /\ declares_retry_count \in BOOLEAN
  /\ executor = [t \in Tasks |-> "any"]
  /\ heap = <<>>
  /\ index = EmptyDict
  /\ active = {}
  /\ completed = {}
  /\ runq = 0
  /\ th = [x \in Threads \cup {"reader"} |-> Idle]
  /\ lock = "free"
  /\ scan_rest = <<>>
  /\ emitted = <<>>
  /\ returned = NoReturn
  /\ enq_order = <<>>
  /\ dispatched = {}
  /\ cancelled_in_heap = {}
  /\ cancelled_running = {}
  /\ EventBusInit
  /\ progress = [t \in Tasks |-> 0]
  /\ _cache = NoCache
  /\ cache_lock = "free"

NextPosition ==
  \/ \E t \in Tasks : enqueue(t)
  \/ enqueue_set
  \/ \E t \in Tasks : cancel_task(t)
  \/ \E w \in Workers : _run_task(w)
  \/ \E w \in Workers, success \in BOOLEAN : _process_execution_result(w, success)
  \/ \E w \in Workers : _cleanup_execution_resources(w)
  \/ \E expired \in SUBSET HeapIds(heap) : _scan_queue_timeouts(expired)
  \/ \E x \in Threads : cancel(x)
  \/ \E x \in Threads : Validate(x)
  \/ \E x \in Threads : _set_status(x)
  \/ \E x \in Threads : invalidate_cache(x)
  \/ \E id \in Tasks : get_position("reader", id)
  \/ \E fresh \in BOOLEAN : get_position_read("reader", fresh)
  \/ _recalculate_positions("reader")
  \/ _recalculate_positions_store("reader")
  \/ \E id \in Tasks : get_task_status_call("reader", id)

SpecPosition == InitPosition /\ [][NextPosition]_vars

\* ------------------------- the scheduler with several querying threads
\* As above, with two application threads that ask for positions and
\* statuses at the same time; the tasks are of class Task as task.py
\* declares it (no retry_count field).
Readers == {"reader", "reader2"}

InitConcurrent ==
  /\ status = [t \in Tasks |-> "PENDING"]
  /\ priority = [t \in Tasks |-> HIGH]
  /\ retry_count = [t \in Tasks |-> 0]
  /\ queue_timeout = [t \in Tasks |-> t \in TimedTasks]
  /\ queue_started_at = [t \in Tasks |-> FALSE]
  /\ timeout_reason = [t \in Tasks |-> FALSE]
  /\ declares_retry_count = FALSE
  /\ executor = [t \in Tasks |-> "any"]
  /\ heap = <<>>
  /\ index = EmptyDict
  /\ active = {}
  /\ completed = {}
  /\ runq = 0
  /\ th = [x \in Threads \cup Readers |-> Idle]
  /\ lock = "free"
  /\ scan_rest = <<>>
  /\ emitted = <<>>
  /\ returned = NoReturn
  /\ enq_order = <<>>
  /\ dispatched = {}
  /\ cancelled_in_heap = {}
  /\ cancelled_running = {}
  /\ EventBusInit
  /\ progress = [t \in Tasks |-> 0]
  /\ _cache = NoCache
  /\ cache_lock = "free"

NextConcurrent ==
  \/ \E t \in Tasks : enqueue(t)
  \/ enqueue_set
  \/ \E t \in Tasks : cancel_task(t)
  \/ \E w \in Workers : _run_task(w)
  \/ \E w \in Workers, success \in BOOLEAN : _process_execution_result(w, success)
  \/ \E w \in Workers : _cleanup_execution_resources(w)
  \/ \E expired \in SUBSET HeapIds(heap) : _scan_queue_timeouts(expired)
  \/ \E x \in Threads : cancel(x)
  \/ \E x \in Threads : Validate(x)
  \/ \E x \in Threads : _set_status(x)
  \/ \E x \in Threads : invalidate_cache(x)
  \/ \E r \in Readers, id \in Tasks : get_position(r, id)
  \/ \E r \in Readers, fresh \in BOOLEAN : get_position_read(r, fresh)
  \/ \E r \in Readers : _recalculate_positions(r)
  \/ \E r \in Readers : _recalculate_positions_store(r)
  \/ \E r \in Readers, id \in Tasks : get_task_status_call(r, id)

SpecConcurrent == InitConcurrent /\ [][NextConcurrent]_vars

\* ------------------------------------- the scheduler used in a with-block
\* One thread enqueues and cancels, another leaves the with-block at some
\* moment, while the workers, the automatic retries and the scanner run.
InitClose ==
  /\ status = [t \in Tasks |-> "PENDING"]
  /\ priority = [t \in Tasks |-> HIGH]
  /\ retry_count = [t \in Tasks |-> 0]
  /\ queue_timeout = [t \in Tasks |-> t \in TimedTasks]
  /\ queue_started_at = [t \in Tasks |-> FALSE]
  /\ timeout_reason = [t \in Tasks |-> FALSE]
  /\ declares_retry_count \in BOOLEAN
  /\ executor = [t \in Tasks |-> "any"]
  /\ heap = <<>>
  /\ index = EmptyDict
  /\ active = {}
  /\ completed = {}
  /\ runq = 0
  /\ th = [x \in Threads \cup {"closer"} |-> Idle]
  /\ lock = "free"
  /\ scan_rest = <<>>
  /\ emitted = <<>>
  /\ returned = NoReturn
  /\ enq_order = <<>>
  /\ dispatched = {}
  /\ cancelled_in_heap = {}
  /\ cancelled_running = {}
  /\ EventBusInit
  /\ progress = [t \in Tasks |-> 0]
  /\ _cache = NoCache
  /\ cache_lock = "free"

NextClose ==
  \/ \E t \in Tasks : enqueue(t)
  \/ enqueue_set
  \/ \E t \in Tasks : cancel_task(t)
  \/ \E w \in Workers : _run_task(w)
  \/ \E w \in Workers, success \in BOOLEAN : _process_execution_result(w, success)
  \/ \E w \in Workers : _cleanup_execution_resources(w)
  \/ \E expired \in SUBSET HeapIds(heap) : _scan_queue_timeouts(expired)
  \/ \E x \in Threads : cancel(x)
  \/ \E x \in Threads : Validate(x)
  \/ \E x \in Threads : _set_status(x)
  \/ __exit__
  \/ executor_shutdown
  \/ EventBus_shutdown
  \/ EventBus_shutdown_returns

SpecClose == InitClose /\ [][NextClose]_vars

\* ------------------------------------ the scheduler with a subscriber
\* One callback is subscribed to the tasks' events before the first task is
\* enqueued; the tasks are used through the scheduler only, and the threads
\* of the bus run the callbacks.
InitEvents ==
  /\ status = [t \in Tasks |-> "PENDING"]
  /\ priority = [t \in Tasks |-> HIGH]
  /\ retry_count = [t \in Tasks |-> 0]
  /\ queue_timeout = [t \in Tasks |-> t \in TimedTasks]
  /\ queue_started_at = [t \in Tasks |-> FALSE]
  /\ timeout_reason = [t \in Tasks |-> FALSE]
  /\ declares_retry_count = FALSE
  /\ executor = [t \in Tasks |-> "any"]
  /\ heap = <<>>
  /\ index = EmptyDict
  /\ active = {}
  /\ completed = {}
  /\ runq = 0
  /\ th = [x \in Threads |-> Idle]
  /\ lock = "free"
  /\ scan_rest = <<>>
  /\ emitted = <<>>
  /\ returned = NoReturn
  /\ enq_order = <<>>
  /\ dispatched = {}
  /\ cancelled_in_heap = {}
  /\ cancelled_running = {}
  /\ _subscribers = [e \in EventTypes |-> <<"on_event">>]
  /\ pub = PubIdle
  /\ pool = {}
  /\ invoked = [id \in 1..MaxPublishes |-> [cb \in Callbacks |-> 0]]
  /\ published = <<>>
  /\ late = {}
  /\ work_queue = <<>>
  /\ observed = <<>>
  /\ progress = [t \in Tasks |-> 0]
  /\ _cache = NoCache
  /\ cache_lock = "free"

NextEvents ==
  \/ \E t \in Tasks : enqueue(t)
  \/ enqueue_set
  \/ \E t \in Tasks : cancel_task(t)
  \/ \E w \in Workers : _run_task(w)
  \/ \E w \in Workers, success \in BOOLEAN : _process_execution_result(w, success)
  \/ \E w \in Workers : _cleanup_execution_resources(w)
  \/ \E expired \in SUBSET HeapIds(heap) : _scan_queue_timeouts(expired)
  \/ \E x \in Threads : cancel(x)
  \/ \E x \in Threads : Validate(x)
  \/ \E x \in Threads : _set_status(x)
  \/ \E k \in 1.._max_workers : EventBus_callback(k)

SpecEvents == InitEvents /\ [][NextEvents]_vars

\* ----------------------------------- the bus shut down while events arrive
\* One application thread cancels tasks constructed in any status while
\* another leaves the with-block of a scheduler that has nothing to run.  The
\* subscriber of task_status_changed calls a method of EventBus, the
\* subscriber of task_cancelled does not.
InitShutdown ==
  /\ status \in [Tasks -> TaskStatus]
  /\ priority = [t \in Tasks |-> HIGH]
  /\ retry_count = [t \in Tasks |-> 0]
  /\ queue_timeout = [t \in Tasks |-> FALSE]
  /\ queue_started_at = [t \in Tasks |-> FALSE]
  /\ timeout_reason = [t \in Tasks |-> FALSE]
  /\ declares_retry_count = FALSE
  /\ executor = [t \in Tasks |-> "any"]
  /\ heap = <<>>
  /\ index = EmptyDict
  /\ active = {}
  /\ completed = {}
  /\ runq = 0
  /\ th = [x \in Threads \cup {"closer"} \cup BusThreads |-> Idle]
  /\ lock = "free"
  /\ scan_rest = <<>>
  /\ emitted = <<>>
  /\ returned = NoReturn
  /\ enq_order = <<>>
  /\ dispatched = {}
  /\ cancelled_in_heap = {}
  /\ cancelled_running = {}
  /\ _subscribers = [e \in EventTypes |->
                       IF e = "task_status_changed" THEN <<"on_event_calls_bus">>
                       ELSE <<"on_event">>]
  /\ pub = PubIdle
  /\ pool = {}
  /\ invoked = [id \in 1..MaxPublishes |-> [cb \in Callbacks |-> 0]]
  /\ published = <<>>
  /\ late = {}
  /\ work_queue = <<>>
  /\ observed = <<>>
  /\ progress = [t \in Tasks |-> 0]
  /\ _cache = NoCache
  /\ cache_lock = "free"

NextShutdown ==
  \/ \E t \in Tasks : Task_cancel("direct", t)
  \/ _set_status("direct")
  \/ __exit__
  \/ executor_shutdown
  \/ EventBus_shutdown
  \/ EventBus_shutdown_returns
  \/ \E k \in 1.._max_workers : EventBus_callback(k)
  \/ \E b \in BusThreads : EventBus_callback_returns(b)

SpecShutdown == InitShutdown /\ [][NextShutdown]_vars

\* --------------------------------- positions and the order of dispatch
\* Three tasks of one priority, enqueued in any order while the workers
\* run, and an application thread that asks for positions.
OrderTasks == 1..(NumTasks + 1)

InitOrder ==
  /\ status = [t \in OrderTasks |-> "PENDING"]
  /\ priority = [t \in OrderTasks |-> HIGH]
  /\ retry_count = [t \in OrderTasks |-> 0]
  /\ queue_timeout = [t \in OrderTasks |-> FALSE]
  /\ queue_started_at = [t \in OrderTasks |-> FALSE]
  /\ timeout_reason = [t \in OrderTasks |-> FALSE]
  /\ declares_retry_count = FALSE
  /\ executor = [t \in OrderTasks |-> "any"]
  /\ heap = <<>>
  /\ index = EmptyDict
  /\ active = {}
  /\ completed = {}
  /\ runq = 0
  /\ th = [x \in Threads \cup {"reader"} |-> Idle]
  /\ lock = "free"
  /\ scan_rest = <<>>
  /\ emitted = <<>>
  /\ returned = NoReturn
  /\ enq_order = <<>>
  /\ dispatched = {}
  /\ cancelled_in_heap = {}
  /\ cancelled_running = {}
  /\ EventBusInit
  /\ progress = [t \in OrderTasks |-> 0]
  /\ _cache = NoCache
  /\ cache_lock = "free"

NextOrder ==
  \/ \E t \in OrderTasks : enqueue(t)
  \/ enqueue_set
  \/ \E w \in Workers : _run_task(w)
  \/ \E w \in Workers, success \in BOOLEAN : _process_execution_result(w, success)
  \/ \E w \in Workers : _cleanup_execution_resources(w)
  \/ \E x \in Threads : Validate(x)
  \/ \E x \in Threads : _set_status(x)
  \/ \E x \in Threads : invalidate_cache(x)
  \/ \E id \in OrderTasks : get_position("reader", id)
  \/ \E fresh \in BOOLEAN : get_position_read("reader", fresh)
  \/ _recalculate_positions("reader")
  \/ _recalculate_positions_store("reader")

SpecOrder == InitOrder /\ [][NextOrder]_vars

\* ----------------------------------------- the scheduler without user threads
\* Runs in which the tasks are only used through the scheduler: enqueue and
\* cancel_task, the workers, the automatic retries and the timeout scanner.
NextScheduler ==
  \/ \E t \in Tasks : enqueue(t)
  \/ enqueue_set
  \/ \E t \in Tasks : cancel_task(t)
  \/ \E w \in Workers : _run_task(w)
  \/ \E w \in Workers, success \in BOOLEAN : _process_execution_result(w, success)
  \/ \E w \in Workers : _cleanup_execution_resources(w)
  \/ \E expired \in SUBSET HeapIds(heap) : _scan_queue_timeouts(expired)
  \/ \E x \in Threads : cancel(x)
  \/ \E x \in Threads : Validate(x)
  \/ \E x \in Threads : _set_status(x)

SpecScheduler == Init /\ [][NextScheduler]_vars

\* The same runs with threads that keep running: a pool worker that can
\* take a run-request does so, an execution comes to an end, and a thread
\* inside a method goes on to its next statement.  Nothing is assumed about
\* the calls of the application or about the clock of the scanner.
Fairness ==
  /\ \A w \in Workers :
       /\ WF_vars(_run_task(w))
       /\ WF_vars(\E success \in BOOLEAN : _process_execution_result(w, success))
       /\ WF_vars(_cleanup_execution_resources(w))
  /\ \A x \in Threads :
       /\ WF_vars(Validate(x))
       /\ WF_vars(_set_status(x))
       /\ WF_vars(cancel(x))
  /\ WF_vars(enqueue_set)

SpecSchedulerFair == SpecScheduler /\ Fairness

\* ------------------------------------------------------------ properties
\* the pairs (current, new) of the transition matrix
MatrixPairs ==
  { <<"PENDING", "QUEUED">>, <<"PENDING", "CANCELLED">>,
    <<"QUEUED", "RUNNING">>, <<"QUEUED", "CANCELLED">>, <<"QUEUED", "FAILED">>,
    <<"RUNNING", "COMPLETED">>, <<"RUNNING", "FAILED">>, <<"RUNNING", "CANCELLED">>,
    <<"FAILED", "QUEUED">> }

\* C1: Task.atomic_set_status(new, validate=True) on a task whose status is
\* current returns True and sets the status to new exactly when
\* (current, new) is a pair of the matrix; for every other pair, new =
\* current included, it returns False, changes no status and publishes no
\* event.
C1_AtomicSetStatusFollowsMatrix ==
  [][returned'.op = "atomic_set_status" =>
       LET t == returned'.t
           new == returned'.arg
           current == status[t]
       IN IF <<current, new>> \in MatrixPairs
          THEN returned'.ret /\ status'[t] = new
          ELSE ~returned'.ret /\ status' = status /\ emitted' = <<>>]_vars

\* a validated call has returned True and the task has the new status
C1_Accepted ==
  /\ returned.op = "atomic_set_status"
  /\ returned.ret
  /\ returned.arg = "FAILED"
  /\ status[returned.t] = "FAILED"

\* C2: every change of a task's status is a pair of the matrix; a COMPLETED
\* or CANCELLED task never changes status again.
C2_OnlyMatrixTransitions ==
  [][\A t \in Tasks :
       status'[t] # status[t] => <<status[t], status'[t]>> \in MatrixPairs]_vars

\* C3: each task id is in at most one of the heap, the active set and the
\* completed map, in every reachable state.
C3_AtMostOneContainer ==
  \A t \in Tasks :
    /\ ~(t \in HeapIds(heap) /\ t \in active)
    /\ ~(t \in HeapIds(heap) /\ t \in completed)
    /\ ~(t \in active /\ t \in completed)

\* C4: the keys of the index are the ids of the heap entries, index and heap
\* have the same size, and index[id] is the heap entry carrying id.
C4_IndexMatchesHeap ==
  /\ DOMAIN index = HeapIds(heap)
  /\ Cardinality(DOMAIN index) = Len(heap)
  /\ \A id \in DOMAIN index :
       /\ index[id][2] = id
       /\ \E i \in 1..Len(heap) : heap[i] = index[id]

\* cancel_task has removed task 1 from the heap while the retried task 2,
\* pushed again after a failure, is in it
C4_AfterRemovalAndRetry ==
  /\ returned = Ret("cancel_task", 1, TRUE)
  /\ 1 \in cancelled_in_heap
  /\ DOMAIN index = {2}
  /\ retry_count[2] > 0

\* C5: when a worker's dispatch sets a task to RUNNING, no entry of the heap
\* has a strictly smaller priority value than that task.
C5_DispatchRespectsPriority ==
  [][\A w \in Workers :
       (/\ th[w].cont = "dispatch"
        /\ th[w].pc = "set"
        /\ th'[w].pc = "exec"
        /\ status'[th[w].t] = "RUNNING")
       => \A i \in 1..Len(heap') : heap'[i][1] >= priority[th[w].t]]_vars

\* a HIGH task enqueued after a LOW one is RUNNING while the LOW one waits
C5_HighRunsLowWaits ==
  /\ Len(enq_order) = 2
  /\ priority[enq_order[1]] = LOW
  /\ \E w \in Workers :
       /\ th[w].pc = "exec"
       /\ th[w].t = enq_order[2]
       /\ status[enq_order[2]] = "RUNNING"
       /\ priority[enq_order[2]] = HIGH
  /\ enq_order[1] \in HeapIds(heap)

\* position of task x in a history sequence
Pos(seq, x) == CHOOSE i \in 1..Len(seq) : seq[i] = x

\* C6: two tasks of equal priority that are both in the heap are dispatched
\* in the order in which they were enqueued, whatever their ids: a task is
\* not taken for its first execution while a task of the same priority,
\* enqueued before it and not yet taken, waits QUEUED in the heap.
C6_FifoAmongEqualPriority ==
  [][\A a, b \in Tasks :
       ~ (/\ a # b
          /\ a \in HeapIds(heap) /\ b \in HeapIds(heap)
          /\ priority[a] = priority[b]
          /\ status[a] = "QUEUED"
          /\ a \notin dispatched /\ b \notin dispatched
          /\ Pos(enq_order, a) < Pos(enq_order, b)
          /\ b \in dispatched')]_vars

\* C7: with an idle pool, a LOW task is enqueued and then a HIGH task: the
\* HIGH task is dispatched before the LOW task (the LOW task has not been
\* taken by a worker while the HIGH task waits QUEUED in the heap, not yet
\* taken).
C7_HighDispatchedBeforeLow ==
  ~ (/\ Len(enq_order) >= 2
     /\ priority[enq_order[1]] = LOW
     /\ priority[enq_order[2]] = HIGH
     /\ enq_order[1] \in dispatched
     /\ enq_order[2] \notin dispatched
     /\ enq_order[2] \in HeapIds(heap)
     /\ status[enq_order[2]] = "QUEUED")

\* C8: a task set to CANCELLED while in the heap, by cancel_task or by a
\* direct Task.cancel, is never set to RUNNING afterwards and no worker
\* starts executing it afterwards.
C8_CancelledInHeapNeverRuns ==
  [][\A t \in cancelled_in_heap :
       /\ status'[t] # "RUNNING"
       /\ \A w \in Workers :
            ~(th[w].pc # "exec" /\ th'[w].pc = "exec" /\ th'[w].t = t)]_vars

\* C9: a task cancelled while RUNNING and being executed stays CANCELLED:
\* it is never set to COMPLETED or FAILED, never put in the completed map
\* and never pushed on the heap again.
C9_CancelledWhileRunningIsDiscarded ==
  [][\A t \in cancelled_running :
       /\ status'[t] = "CANCELLED"
       /\ t \in completed' => t \in completed
       /\ t \in HeapIds(heap') => t \in HeapIds(heap)]_vars

\* C10: cancel_task(id) returns True exactly when id is in the heap index
\* (the entry and the key are then removed) or id is in the active set and
\* Task.cancel succeeded, and the task is CANCELLED when it returns True;
\* for an id in neither it returns False and changes no status, heap,
\* index, active set or completed map.
C10_CancelTaskResult ==
  [][returned'.op = "cancel_task" =>
       LET t == returned'.t
           in_index == t \in DOMAIN index
           in_active == t \in active
           cancel_ok == th["api"].pc = "set"
       IN /\ returned'.ret <=> (in_index \/ (in_active /\ cancel_ok))
          /\ returned'.ret => status'[t] = "CANCELLED"
          /\ in_index => t \notin DOMAIN index' /\ t \notin HeapIds(heap')
          /\ (~in_index /\ ~in_active) =>
               UNCHANGED <<status, heap, index, active, completed>>]_vars

\* cancel_task has returned True for a task a worker is executing
C10_CancelledActive ==
  /\ returned.op = "cancel_task"
  /\ returned.ret
  /\ returned.t \in active
  /\ status[returned.t] = "CANCELLED"
  /\ \E w \in Workers : th[w].pc = "exec" /\ th[w].t = returned.t

\* C11: after cancel_task(id) has returned True, every later
\* get_task_status(id) returns CANCELLED or None, under any interleaving
\* with workers, retries and the timeout scanner: when cancel_task returns
\* True the task is CANCELLED and get_task_status gives CANCELLED or None,
\* and from every state in which a task is CANCELLED the next state keeps it
\* CANCELLED with get_task_status giving CANCELLED or None.
C11_StatusAfterCancelTask ==
  [][\A t \in Tasks :
       (\/ returned' = Ret("cancel_task", t, TRUE)
        \/ status[t] = "CANCELLED")
       => /\ status'[t] = "CANCELLED"
          /\ get_task_status(t)' \in {"CANCELLED", "None"}]_vars

\* a task cancelled by cancel_task while a worker executed it has left the
\* scheduler: get_task_status gives None
C11_CancelledAndGone ==
  \E t \in cancelled_running :
    /\ status[t] = "CANCELLED"
    /\ lock = "free"
    /\ get_task_status(t) = "None"

\* C12: enqueue(task) on a task whose status is not PENDING is rejected
\* (ValueError) and leaves the statuses, queue_started_at, the heap, the
\* index and the submitted run-requests unchanged: enqueue goes on to the
\* assignment only for a PENDING task, and a rejected call changes nothing.
C12_EnqueueRejectsNonPending ==
  [][/\ (th["api"].pc = "idle" /\ th'["api"].pc = "enqueue") =>
          status[th'["api"].t] = "PENDING"
     /\ (returned'.op = "enqueue" /\ ~returned'.ret) =>
          /\ status[returned'.t] # "PENDING"
          /\ UNCHANGED <<status, queue_started_at, heap, index, runq>>]_vars

\* a second enqueue of a task that waits in the heap has been rejected
C12_SecondEnqueueRejected ==
  \E t \in Tasks :
    /\ returned = Ret("enqueue", t, FALSE)
    /\ status[t] = "QUEUED"
    /\ t \in HeapIds(heap)

\* C13: from the moment enqueue(task) has returned until the task is
\* COMPLETED, terminally FAILED or CANCELLED, get_task_status(task.id)
\* returns QUEUED or RUNNING, under any interleaving of workers and retries:
\* whenever the lock is free and an enqueued task is QUEUED or RUNNING,
\* get_task_status returns that status.
C13_StatusVisibleWhileLive ==
  \A t \in Tasks :
    (/\ \E i \in 1..Len(enq_order) : enq_order[i] = t
     /\ lock = "free"
     /\ status[t] \in {"QUEUED", "RUNNING"})
    => get_task_status(t) \in {"QUEUED", "RUNNING"}

\* no thread is inside a call and no run-request is waiting in the pool
Quiescent ==
  /\ runq = 0
  /\ lock = "free"
  /\ \A x \in Threads : th[x].pc = "idle"

\* C14: a task whose every execution attempt fails, enqueued alone, fails 4
\* times and is re-queued 3 times, each retry being dispatched again, and
\* then stays FAILED: when the scheduler has come to rest with a single
\* enqueued task that was dispatched and neither completed, nor was
\* cancelled, nor timed out in the queue, that task is FAILED with its 3
\* retries used.
C14_AloneFailingTaskExhaustsRetries ==
  \A t \in Tasks :
    (/\ enq_order = <<t>>
     /\ t \in dispatched
     /\ Quiescent
     /\ status[t] \notin {"COMPLETED", "CANCELLED"}
     /\ ~timeout_reason[t])
    => /\ status[t] = "FAILED"
       /\ retry_count[t] = MaxRetries

C16_QueueTimeoutFailsAndRemoves ==
  [][\A t \in Tasks :
       /\ (th["scanner"].t = t /\ th["scanner"].cont = "_handle_queue_timeout"
           /\ th["scanner"].pc = "validate")
          => status[t] = "QUEUED" /\ t \in HeapIds(heap)
       /\ (th["scanner"].t = t /\ th'["scanner"].t # t)
          => /\ timeout_reason'[t]
             /\ t \notin HeapIds(heap') /\ t \notin DOMAIN index'
       /\ timeout_reason'[t]
          => /\ status'[t] = "FAILED"
             /\ th'["scanner"].t = t \/ (t \notin HeapIds(heap') /\ t \notin DOMAIN index')
             /\ \A i \in 1..Len(emitted') :
                  ~(emitted'[i].type = "task_cancelled" /\ emitted'[i].task = t)
             /\ \A w \in Workers :
                  ~(th'[w].t = t /\ (th'[w].pc = "exec" \/ th'[w].cont = "dispatch"))]_vars

\* a retried task has timed out in the queue and the scan is over
C16_TimedOutAfterRetry ==
  \E t \in Tasks :
    /\ timeout_reason[t] /\ status[t] = "FAILED"
    /\ retry_count[t] > 0
    /\ th["scanner"].pc = "idle"
    /\ t \notin HeapIds(heap)

\* C17: a task whose every attempt exceeds execution_timeout fails each
\* time, is retried under the retry policy and, once the retries are
\* exhausted, rests in FAILED with timeout_reason set: whenever no locked
\* section is running and such a task is FAILED with its 3 retries used,
\* its timeout_reason is set.
C17_ExecutionTimeoutSetsReason ==
  \A t \in DOMAIN status :
    (/\ executor[t] = "times_out"
     /\ lock = "free"
     /\ status[t] = "FAILED"
     /\ retry_count[t] = MaxRetries)
    => timeout_reason[t]

\* C18: every status change the scheduler performs publishes a
\* task_status_changed event carrying the old and the new status, enqueue's
\* PENDING -> QUEUED included: a step that changes a task's status emits
\* the event for exactly that change.
C18_EveryStatusChangePublished ==
  [][\A t \in Tasks :
       status'[t] # status[t]
       => \E i \in 1..Len(emitted') :
            /\ emitted'[i].type = "task_status_changed"
            /\ emitted'[i].task = t
            /\ emitted'[i].old = status[t]
            /\ emitted'[i].new = status'[t]]_vars

\* the publish has returned and the pool holds none of its callbacks
Delivered(id) ==
  /\ published[id].state = "returned"
  /\ \A e \in pool : e.id # id

\* C19: publish returns the number of callbacks subscribed to the type when
\* the copy of the list was taken, and delivers the event exactly once to
\* each callback of that copy and to no other, whatever subscribe,
\* unsubscribe or clear do to the list afterwards.
C19_PublishDeliversToSnapshot ==
  \A id \in 1..Len(published) :
    LET p == published[id]
    IN /\ p.state = "returned" => p.ret = Len(p.subs)
       /\ \A cb \in Callbacks :
            /\ invoked[id][cb] <= 1
            /\ cb \notin Range(p.subs) => invoked[id][cb] = 0
                                         /\ [id |-> id, callback |-> cb] \notin pool
            /\ (Delivered(id) /\ cb \in Range(p.subs)) => invoked[id][cb] = 1

\* a publish to two subscribers was delivered to both although the list was
\* changed between the copy and a delivery, and is empty now
C19_DeliveredAfterListChanged ==
  \E id \in 1..Len(published) :
    /\ id \in late
    /\ Delivered(id)
    /\ published[id].ret = 2
    /\ \A cb \in Callbacks : invoked[id][cb] = 1
    /\ _subscribers[published[id].type] = <<>>

\* C20: when a callback of a publish raises, in sync or async mode, the
\* other callbacks of that publish are still invoked, publish returns the
\* subscriber count and no exception reaches the publisher.
C20_RaisingCallbackIsIsolated ==
  \A id \in 1..Len(published) :
    LET p == published[id]
    IN (Range(p.subs) \cap Raising # {})
       => /\ p.state # "raised"
          /\ p.state = "returned" =>
               /\ p.ret = Len(p.subs)
               /\ \A cb \in Range(p.subs) :
                    invoked[id][cb] = 1 \/ [id |-> id, callback |-> cb] \in pool

\* a synchronous publish whose first callback raised was delivered to the
\* second one and returned 2
C20_SyncPublishPastRaisingCallback ==
  \E id \in 1..Len(published) :
    /\ ~published[id].async
    /\ published[id].subs = <<"on_event_raises", "on_event">>
    /\ published[id].state = "returned" /\ published[id].ret = 2
    /\ invoked[id]["on_event_raises"] = 1 /\ invoked[id]["on_event"] = 1

C25_RetryFailedTaskResult ==
  [][\A t \in Tasks :
       (returned'.op = "retry" /\ returned'.t = t)
       => IF returned'.ret
          THEN /\ status[t] = "FAILED"
               /\ status'[t] = "QUEUED"
               /\ \E i \in 1..Len(emitted') :
                    emitted'[i] = StatusChanged(t, "FAILED", "QUEUED", TRUE)
          ELSE /\ status[t] # "FAILED"
               /\ status' = status
               /\ emitted' = <<>>]_vars

\* retry_failed_task has re-queued a FAILED task
C25_RetriedFromFailed ==
  \E t \in Tasks :
    /\ returned = [op |-> "retry", t |-> t, ret |-> TRUE, arg |-> "QUEUED"]
    /\ status[t] = "QUEUED"
    /\ StatusChanged(t, "FAILED", "QUEUED", TRUE) \in Range(emitted)

\* C30: the validation and the write of a status change are one atomic step
\* for the other threads using the task: when a thread that has validated a
\* transition writes the new status, the change it makes is a transition of
\* the matrix, also while Task.cancel runs in a user thread and a worker
\* runs atomic_set_status on the same task.
C30_ValidateThenSetIsAtomic ==
  [][\A x \in Threads :
       (/\ th[x].pc = "set"
        /\ th'[x] # th[x]
        /\ th[x].op # "atomic_set_status_novalidate")
       => LET t == th[x].t
          IN \/ status'[t] = status[t]
             \/ status'[t] \in TRANSITION_MATRIX[status[t]]]_vars

\* C27: no task is lost: with executions that end and workers that keep
\* running, a task that is QUEUED in the heap, after enqueue or after an
\* automatic retry, eventually is COMPLETED, FAILED or CANCELLED.
C27_NoTaskLost ==
  \A t \in Tasks :
    (status[t] = "QUEUED" /\ t \in HeapIds(heap))
      ~> (status[t] \in {"COMPLETED", "FAILED", "CANCELLED"})

\* C23: after update_progress(p), for p below 0, inside [0,1] and above 1,
\* progress is min(1, max(0, p)) and the task_progress event carries the
\* previous value and the new one; progress is within [0,1] in every state.
C23_ProgressClamped ==
  [][\A t \in Tasks :
       /\ progress'[t] \in 0..ProgressOne
       /\ (returned'.op = "update_progress" /\ returned'.t = t)
          => /\ progress'[t] = Min(ProgressOne, Max(0, returned'.arg))
             /\ emitted' = <<ProgressUpdated(t, progress[t], progress'[t])>>]_vars

\* a completed task (progress 1.0) was given a negative progress
C23_NegativeAfterCompleted ==
  \E t \in Tasks :
    /\ status[t] = "COMPLETED"
    /\ returned.op = "update_progress" /\ returned.t = t /\ returned.arg = -5
    /\ progress[t] = 0
    /\ emitted = <<ProgressUpdated(t, ProgressOne, 0)>>

\* what get_position(id) is to return for the heap h: (position, total) for
\* an id in h, (None, total) otherwise; None is written 0
PositionAndTotal(h, id) ==
  IF id \in HeapIds(h)
  THEN <<CHOOSE i \in 1..Len(h) : h[i][2] = id, Len(h)>>
  ELSE <<0, Len(h)>>

\* C21: get_position(id) returns (p, total), p the 1-based position of id in
\* the heap and total the heap size, when id is in the heap, and
\* (None, total) with total the heap size when it is not, both when the
\* positions are recomputed and when they come from a cache that holds the
\* positions of the present heap.
C21_GetPositionResult ==
  [][returned'.op = "get_position"
     => /\ returned'.arg = "recalc"
           => returned'.ret = PositionAndTotal(heap, returned'.t)
        /\ (returned'.arg = "cached" /\ _cache.positions = PositionsOf(heap))
           => returned'.ret = PositionAndTotal(heap, returned'.t)]_vars

\* C22: every change of the heap invalidates the position cache, so a
\* get_position issued after the change has completed is not answered from
\* positions computed before it: whenever no scheduler thread is inside a
\* scheduler method (each is idle or executing a task) and no position
\* query is under way, a cache that is set holds the positions of the heap
\* as it is.
C22_CacheMatchesHeapWhenSettled ==
  (/\ PositionCalls
   /\ \A x \in Threads : th[x].pc \in {"idle", "exec"}
   /\ th["reader"].pc = "idle"
   /\ ~_cache.is_none)
  => _cache.positions = PositionsOf(heap)

\* the thread x is inside a call (a worker: inside a run-request)
InCall(x) == th[x].pc # "idle"

\* the steps the thread x can take from inside a call
StepOf(x) ==
  \/ x = "api" /\ enqueue_set
  \/ cancel(x)
  \/ Validate(x)
  \/ _set_status(x)
  \/ invalidate_cache(x)
  \/ \E success \in BOOLEAN : _process_execution_result(x, success)
  \/ _cleanup_execution_resources(x)
  \/ \E fresh \in BOOLEAN : get_position_read(x, fresh)
  \/ _recalculate_positions(x)
  \/ _recalculate_positions_store(x)

\* the thread that holds the lock the next step of x has to take, "none" if
\* x needs no lock or can take it: the scheduler lock is re-entrant, the
\* cache lock is not
Blocker(x) ==
  CASE th[x].pc \in {"invalidate", "cleanup", "store"} ->
         IF cache_lock = "free" THEN "none" ELSE cache_lock
    [] th[x].pc \in {"exec", "cleanup_pop", "recalc"} ->
         IF lock \in {"free", x} THEN "none" ELSE lock
    [] OTHER -> "none"

\* following the blockers from x leads, in at most n steps, to a thread
\* inside a call that is not blocked
RECURSIVE Unblocks(_, _)
Unblocks(x, n) ==
  /\ InCall(x)
  /\ \/ Blocker(x) = "none"
     \/ /\ n > 0
        /\ Blocker(x) # x
        /\ Unblocks(Blocker(x), n - 1)

\* C26: with the api thread, two querying threads, the workers, the scanner
\* and the position cache active, no deadlock is reachable: each lock that is
\* held is held by a thread inside a call, every thread inside a call either
\* can take its next step or waits for a lock at the end of a chain of
\* holders whose last one can take its next step, and no thread waits for a
\* lock it holds itself.
C26_NoDeadlock ==
  Readers \subseteq DOMAIN th =>
    /\ lock # "free" => Unblocks(lock, Cardinality(DOMAIN th))
    /\ cache_lock # "free" => Unblocks(cache_lock, Cardinality(DOMAIN th))
    /\ \A x \in DOMAIN th :
         InCall(x) =>
           /\ Unblocks(x, Cardinality(DOMAIN th))
           /\ Blocker(x) = "none" => ENABLED StepOf(x)

\* a chain of waiters: one querying thread holds the cache lock in
\* get_position; the other holds the scheduler lock and waits in
\* _recalculate_positions for the cache lock, as the api thread does in
\* invalidate_cache; a worker whose execution has ended waits for the
\* scheduler lock
C26_ChainOfWaiters ==
  /\ Readers \subseteq DOMAIN th
  /\ th["reader"].pc = "cache_check"
  /\ th["reader2"].pc = "store"
  /\ Blocker("reader2") = "reader"
  /\ th["api"].pc = "invalidate"
  /\ Blocker("api") = "reader"
  /\ \E w \in Workers : th[w].pc = "exec" /\ Blocker(w) = "reader2"

\* the thread that left the with-block is at pc in __exit__
Closer(pcs) == "closer" \in DOMAIN th /\ th["closer"].pc \in pcs

\* C28: __exit__ calls EventBus.shutdown, and returns, only when no
\* run-request is pending and no worker is inside a run-request; when it has
\* returned no task is RUNNING.
C28_CloseWaitsForExecutions ==
  /\ Closer({"bus_shutdown", "bus_wait", "closed"}) =>
       /\ runq = 0
       /\ \A w \in Workers : th[w].pc = "idle"
  /\ Closer({"closed"}) => \A t \in DOMAIN status : status[t] # "RUNNING"

\* __exit__ has returned after every task was dispatched, one of them
\* completed and another failed
C28_ClosedAfterExecutions ==
  /\ Closer({"closed"})
  /\ returned = Ret("__exit__", 0, TRUE)
  /\ dispatched = DOMAIN status
  /\ \E t \in dispatched : status[t] = "COMPLETED"
  /\ \E t \in dispatched : status[t] = "FAILED"

\* C29: once __exit__ has returned the scanner starts no scan and no step of
\* the scanner changes the status of a task.
C29_ScannerStopsOnClose ==
  [][Closer({"closed"}) =>
       /\ th["scanner"].pc = "idle" => th'["scanner"].pc = "idle"
       /\ th'["scanner"] # th["scanner"] => status' = status]_vars

\* C38: an enqueue that fails, because the task is not PENDING or because
\* the executor refuses the run-request after the scheduler was closed,
\* leaves the task's status, the heap and the index as they were.
C38_FailedEnqueueChangesNothing ==
  [][(returned'.op = "enqueue" /\ ~returned'.ret) =>
       UNCHANGED <<status, heap, index>>]_vars

\* C31: when a worker leaves the run-request in which it dispatched a task,
\* whatever the outcome was, the task's id is no longer in the active set.
C31_ActiveEntryRemovedAfterProcessing ==
  [][\A w \in Workers :
       (th[w].pc # "idle" /\ th'[w].pc = "idle") => th[w].t \notin active']_vars

\* the task_status_changed events of task t among the observed, in order
StatusEventsOf(t) ==
  SelectSeq(observed, LAMBDA o : o.event.type = "task_status_changed" /\ o.event.task = t)

\* C32: the task_status_changed events of one task reach a subscriber as a
\* chain: each one's old_status is the new_status of the one observed before.
C32_ObservedStatusChain ==
  \A t \in DOMAIN status :
    \A i \in 1..(Len(StatusEventsOf(t)) - 1) :
      StatusEventsOf(t)[i + 1].event.old = StatusEventsOf(t)[i].event.new

\* C33: the task_cancelled event Task.cancel publishes carries as old_status
\* the status the task had before the cancellation: PENDING, QUEUED or
\* RUNNING.
C33_CancelledEventOldStatus ==
  [][\A i \in 1..Len(emitted') :
       emitted'[i].type = "task_cancelled" =>
         /\ emitted'[i].old = status[emitted'[i].task]
         /\ emitted'[i].old \in {"PENDING", "QUEUED", "RUNNING"}]_vars

\* C34: at most max_workers tasks are RUNNING, and at most max_workers
\* executions are in progress, also with more tasks enqueued than workers.
C34_AtMostMaxWorkersRunning ==
  /\ Cardinality({t \in DOMAIN status : status[t] = "RUNNING"}) <= max_workers
  /\ Cardinality({x \in DOMAIN th : th[x].pc = "exec"}) <= max_workers

\* max_workers tasks are RUNNING and being executed while further tasks wait
\* in the heap with their run-requests pending
C34_PoolSaturated ==
  /\ Cardinality({t \in DOMAIN status : status[t] = "RUNNING"}) = max_workers
  /\ Cardinality({x \in DOMAIN th : th[x].pc = "exec"}) = max_workers
  /\ Len(heap) >= 2
  /\ runq >= 2

\* C35: priorities do not change after enqueue, and then a worker that takes
\* a run-request while the heap is not empty and its first entry's task is
\* not CANCELLED dispatches that task: it goes to the active set, is not
\* pushed back, and the worker goes on to set it RUNNING.
C35_DispatchTakesHeapTop ==
  [][(runq' < runq /\ heap # <<>> /\ status[heap[1][2]] # "CANCELLED") =>
       LET t == heap[1][2]
       IN /\ t \in active'
          /\ t \notin HeapIds(heap')
          /\ heap' = heappop(heap)
          /\ \E w \in Workers :
               /\ th[w].pc = "idle"
               /\ th'[w] = Call(t, "RUNNING", "atomic", "dispatch")]_vars

\* a worker has dispatched a task and left a task of lower priority (a
\* larger value) in the heap
C35_DispatchedAheadOfLowerPriority ==
  \E w \in Workers :
    /\ th[w].pc = "validate"
    /\ th[w].cont = "dispatch"
    /\ heap # <<>>
    /\ heap[1][1] > priority[th[w].t]

\* C36: a task whose status is RUNNING is in the active set.
C36_RunningIsActive ==
  \A t \in DOMAIN status : status[t] = "RUNNING" => t \in active

\* C37: outside the scheduler's locked sections, a task that was enqueued
\* and whose status is QUEUED is in the heap and has an index entry.
C37_QueuedIsInHeap ==
  lock = "free" =>
    \A i \in 1..Len(enq_order) :
      status[enq_order[i]] = "QUEUED" =>
        /\ enq_order[i] \in HeapIds(heap)
        /\ enq_order[i] \in DOMAIN index

\* C39: EventBus.shutdown(wait=True) returns also when callbacks in flight
\* call methods of the bus: while it holds the lock and waits for the pool,
\* no thread of the pool waits inside a callback for that lock.
C39_ShutdownNotBlockedByCallback ==
  ~(BusLocked /\ \E b \in BusyBusThreads : th[b].pc = "bus_call")

\* the ids of the heap h in the order in which successive run-requests
\* dispatch them when nothing else changes the heap
RECURSIVE DispatchOrder(_)
DispatchOrder(h) ==
  IF h = <<>> THEN <<>>
  ELSE LET d == _dequeue_and_validate_task(h)
       IN IF Len(d.heap) >= Len(h) THEN <<>>
          ELSE IF d.task = 0 THEN DispatchOrder(d.heap)
          ELSE <<d.task>> \o DispatchOrder(d.heap)

\* C40: the positions _recalculate_positions has just computed from the heap
\* are the distinct values 1..total, and a task with a smaller position is
\* dispatched before one with a larger position.
C40_PositionsFollowDispatchOrder ==
  (returned.op = "get_position" /\ returned.arg = "recalc") =>
    LET positions == _cache.positions
        order == DispatchOrder(heap)
    IN /\ DOMAIN positions = HeapIds(heap)
       /\ {positions[id][1] : id \in DOMAIN positions} = 1..Len(heap)
       /\ \A a, b \in DOMAIN positions :
            positions[a][1] < positions[b][1] =>
              \E i, j \in 1..Len(order) : i < j /\ order[i] = a /\ order[j] = b
====
